---- MODULE Spec2Model ----
(***************************************************************************)
(* A model of the icalendar crate of richard-uk1/plannr: the line unfolder *)
(* (parser/line.rs), the content-line splitter and its lexical helpers     *)
(* (parser/line.rs, parser/helpers.rs, parser/lexer.rs,                    *)
(* parser/param_map.rs), the lookahead buffer (parser/lexer.rs) and the    *)
(* component assemblers (parser/mod.rs, lib.rs), with the value types they *)
(* parse (types/mod.rs, types/recur.rs, types/vec_one.rs, values.rs).      *)
(*                                                                         *)
(* A string is a sequence of characters; a character is a one-character    *)
(* TLA+ string.  All the characters the model uses are ASCII, so a byte    *)
(* offset of the source is an index of the sequence.                       *)
(***************************************************************************)
EXTENDS Integers, Sequences, FiniteSets, TLC

VARIABLES
    text,       \* the text handed to LineIter::new / Lexer::new / parse
    input,      \* LineIter.input: the part of the text not yet read
    lines,      \* the items LineIter::next has returned so far, in order
    iterDone,   \* LineIter::next has returned None
    raw,        \* the logical line handed to Line::parse, or the input of
                \* the function that is run on its own
    rawOwned,   \* whether it is handed over as Cow::Owned
    parsed,     \* the result of Line::parse or of that function, None
                \* before the call
    cache,      \* Lexer.cache: the lines parsed and not yet taken
    pc,         \* where the parse is: "parse" (the loop of lib.rs parse),
                \* "begin", "calendar" (Calendar::parse), "event"
                \* (Event::parse), "skip" (Lexer::skip_current), "done"
                \* (parse returned Ok) or "failed" (it returned Err)
    calendars,  \* the calendars of lib.rs parse
    builder,    \* the CalendarBuilder of Calendar::parse
    event,      \* the EventBuilder of Event::parse
    depth,      \* the depth of Lexer::skip_current
    ret,        \* the caller of Lexer::skip_current
    error,      \* the error parse returned, None if none
    taken,      \* the lines Lexer::take_next has returned and Lexer::step
                \* has discarded, in order
    stripped    \* the text that the result on text is compared with

unfoldVars == <<lines, iterDone>>

lineVars == <<raw, rawOwned, parsed>>

parserVars == <<cache, pc, calendars, builder, event, depth, ret, error, taken, stripped>>

vars == <<text, input, lines, iterDone, raw, rawOwned, parsed, cache, pc, calendars,
          builder, event, depth, ret, error, taken, stripped>>

\* ------------------------------------------------------------ characters

CR == "\r"
LF == "\n"
SP == " "
DQUOTE == "\""

None == [some |-> FALSE]
Some(v) == [some |-> TRUE, val |-> v]

\* let x = value; body: the body with x bound to the value.
Bind(value, body(_)) == body(value)

Min(S) == CHOOSE x \in S : \A y \in S : x <= y

\* All the sequences over S of length at most n.
SeqUpTo(S, n) == UNION {[1..k -> S] : k \in 0..n}

\* &s[n..]: the suffix from byte offset n
SliceFrom(s, n) == SubSeq(s, n + 1, Len(s))

\* str::starts_with(ch)
starts_with(s, ch) == Len(s) > 0 /\ s[1] = ch

\* ------------------------------------------------- parser/line.rs: LineIter

\* The offset (1-based) of the first "\r\n" of s, 0 when there is none.
FindCRLF(s) ==
    LET hits == {i \in 1..(Len(s) - 1) : s[i] = CR /\ s[i + 1] = LF}
    IN IF hits = {} THEN 0 ELSE Min(hits)

\* str::split("\r\n"): the segments between the terminators; always at least
\* one segment, and a text that ends with "\r\n" has a last segment "".
RECURSIVE SplitCRLF(_)
SplitCRLF(s) ==
    LET i == FindCRLF(s)
    IN IF i = 0 THEN <<s>>
       ELSE <<SubSeq(s, 1, i - 1)>> \o SplitCRLF(SliceFrom(s, i + 1))

RECURSIVE ContinuationLoop(_, _, _, _, _, _)

\* ContinuationLoop as it would be if the continuation's leading space were
\* kept.
ContinuationLoop_keepSpace(inp, iter, k, output, len, folds) ==
    IF k > Len(iter)
    THEN [item |-> Some([line |-> output, owned |-> TRUE, folds |-> folds]),
          input |-> <<>>]
    ELSE LET next == iter[k]
         IN IF starts_with(next, SP)
            THEN ContinuationLoop(inp, iter, k + 1, output \o next,
                                  len + Len(next) + 2, Append(folds, Len(output)))
            ELSE [item |-> Some([line |-> output, owned |-> TRUE, folds |-> folds]),
                  input |-> SliceFrom(inp, len + 2)]

\* The while let Some(next) = iter.next() loop of LineIter::next, from the
\* k-th segment on.  output is the line built so far, len the bytes consumed,
\* folds the offsets of output at which a continuation was appended (history:
\* the code keeps no such record).
ContinuationLoop(inp, iter, k, output, len, folds) ==
    IF k > Len(iter)
    THEN \* we got to the end of the iterator
         [item |-> Some([line |-> output, owned |-> TRUE, folds |-> folds]),
          input |-> <<>>]
    ELSE LET next == iter[k]
         IN IF starts_with(next, SP)
            THEN ContinuationLoop(inp, iter, k + 1, output \o Tail(next),
                                  len + Len(next) + 2, Append(folds, Len(output)))
            ELSE [item |-> Some([line |-> output, owned |-> TRUE, folds |-> folds]),
                  input |-> SliceFrom(inp, len + 2)]

\* LineIter::next as it would be if a line without continuation skipped only
\* one byte of its terminator.
LineIterNext_skipOne(inp) ==
    LET iter == SplitCRLF(inp)
        first == iter[1]
    IN IF Len(iter) < 2
       THEN IF first = <<>>
            THEN [item |-> None, input |-> inp]
            ELSE [item |-> Some([line |-> first, owned |-> FALSE, folds |-> <<>>]),
                  input |-> <<>>]
       ELSE LET second == iter[2]
            IN IF ~starts_with(second, SP)
               THEN [item |-> Some([line |-> first, owned |-> FALSE, folds |-> <<>>]),
                     input |-> SliceFrom(inp, Len(first) + 1)]
               ELSE ContinuationLoop(inp, iter, 3, first \o Tail(second),
                                     Len(first) + 2 + Len(second), <<Len(first)>>)

\* LineIter::next on the unread text inp: the item returned (None, or a line
\* that is Cow::Borrowed or Cow::Owned) and the new LineIter.input.
LineIterNext(inp) ==
    LET iter == SplitCRLF(inp)
        first == iter[1]
    IN IF Len(iter) < 2
       THEN IF first = <<>>
            THEN [item |-> None, input |-> inp]
            ELSE \* last line
                 [item |-> Some([line |-> first, owned |-> FALSE, folds |-> <<>>]),
                  input |-> <<>>]
       ELSE LET second == iter[2]
            IN IF ~starts_with(second, SP)
               THEN [item |-> Some([line |-> first, owned |-> FALSE, folds |-> <<>>]),
                     input |-> SliceFrom(inp, Len(first) + 2)]
               ELSE ContinuationLoop(inp, iter, 3, first \o Tail(second),
                                     Len(first) + 2 + Len(second), <<Len(first)>>)

\* ------------------------------------------------------ character classes

Upper == {"A", "B", "C", "D", "E", "F", "G", "H", "I", "J", "K", "L", "M",
          "N", "O", "P", "Q", "R", "S", "T", "U", "V", "W", "X", "Y", "Z"}

Lower == {"a", "b", "c", "d", "e", "f", "g", "h", "i", "j", "k", "l", "m",
          "n", "o", "p", "q", "r", "s", "t", "u", "v", "w", "x", "y", "z"}

Digit == {"0", "1", "2", "3", "4", "5", "6", "7", "8", "9"}

\* char::is_ascii_alphanumeric
is_ascii_alphanumeric(ch) == ch \in Upper \cup Lower \cup Digit

\* A letter and a digit outside ASCII, each one character of the text: the
\* letter U+00E9 (e with acute accent) and the digit U+0663 (Arabic-Indic 3).
NonAsciiLetter == "U+00E9"

NonAsciiDigit == "U+0663"

\* char::is_alphanumeric: the letters and the digits of Unicode
is_alphanumeric(ch) == ch \in Upper \cup Lower \cup Digit \cup {NonAsciiLetter, NonAsciiDigit}

\* char::is_control, on the characters of the model
is_control(ch) == ch \in {CR, LF, "\t"}

\* ---------------------------------------------------------------- results

\* Ok(v) and Err(e) of Result; e is the message the error is built from (for
\* a message that quotes the input, its fixed part).
Ok(v) == [ok |-> TRUE, val |-> v]
Err(e) == [ok |-> FALSE, err |-> e]

\* An error with the message msg.
Msg(msg) == [msg |-> msg]

\* ------------------------------------------------------ parser/helpers.rs

\* str::find(delim): the offset (1-based) of the first delim of s, 0 when
\* there is none.
find(s, delim) ==
    Bind({i \in 1..Len(s) : s[i] = delim}, LAMBDA hits :
       IF hits = {} THEN 0 ELSE Min(hits))

\* try_split_once: Ok of the parts before and after the first delim, Err of
\* the input when there is none.  A borrowed input is split with
\* str::split_once, an owned one with find, split_off and pop.
try_split_once(s, owned, delim) ==
    Bind(find(s, delim), LAMBDA split_idx :
       IF split_idx = 0 THEN Err(s)
       ELSE IF ~owned
            THEN Ok(<<SubSeq(s, 1, split_idx - 1), SliceFrom(s, split_idx)>>)
            ELSE Bind(SliceFrom(s, split_idx), LAMBDA after :
                 Bind(SubSeq(s, 1, split_idx), LAMBDA kept :
                    Ok(<<SubSeq(kept, 1, Len(kept) - 1), after>>))))

\* split_once: as try_split_once, with everything in the first part when there
\* is no delim.
split_once(s, owned, delim) ==
    Bind(find(s, delim), LAMBDA split_idx :
       IF split_idx = 0 THEN <<s, <<>>>>
       ELSE IF ~owned
            THEN <<SubSeq(s, 1, split_idx - 1), SliceFrom(s, split_idx)>>
            ELSE Bind(SliceFrom(s, split_idx), LAMBDA after :
                 Bind(SubSeq(s, 1, split_idx), LAMBDA kept :
                    <<SubSeq(kept, 1, Len(kept) - 1), after>>)))

\* The scan of split_once_outside_quotes as it would be if it did not track
\* the quotes.
FindOutsideQuotes_ignoreQuotes(s, test_ch, i, inside_quote) ==
    Bind({j \in i..Len(s) : s[j] = test_ch}, LAMBDA hits :
       IF hits = {} THEN 0 ELSE Min(hits))

\* The while let Some(ch) = chars.next() scan of
\* split_once_outside_quotes_borrowed / _owned from offset i: the offset of
\* the first test_ch met while inside_quote is false, 0 when there is none.
RECURSIVE FindOutsideQuotes(_, _, _, _)
FindOutsideQuotes(s, test_ch, i, inside_quote) ==
    IF i > Len(s) THEN 0
    ELSE IF s[i] = DQUOTE
         THEN FindOutsideQuotes(s, test_ch, i + 1, ~inside_quote)
         ELSE IF s[i] = test_ch /\ ~inside_quote
              THEN i
              ELSE FindOutsideQuotes(s, test_ch, i + 1, inside_quote)

\* split_once_outside_quotes: the parts before and after the first test_ch
\* outside quotes, everything in the first part when there is none.
split_once_outside_quotes(s, owned, test_ch) ==
    Bind(FindOutsideQuotes(s, test_ch, 1, FALSE), LAMBDA at :
       IF at = 0 THEN <<s, <<>>>>
       ELSE IF ~owned
            THEN LET rest == SliceFrom(s, at)
                 IN <<SubSeq(s, 1, Len(s) - Len(rest) - 1), rest>>
            ELSE Bind(SliceFrom(s, at), LAMBDA rest :
                 Bind(Len(s) - Len(rest), LAMBDA first_end_idx :
                 Bind(SubSeq(s, 1, first_end_idx), LAMBDA kept :
                    <<SubSeq(kept, 1, Len(kept) - 1), SliceFrom(s, first_end_idx)>>))))

\* pop_front_bytes: the string without its first chars characters.
pop_front_bytes(s, chars) ==
    IF chars >= Len(s) THEN <<>> ELSE SliceFrom(s, chars)

\* check_iana_token
check_iana_token(s) ==
    IF \A i \in 1..Len(s) : is_alphanumeric(s[i]) \/ s[i] = "-"
    THEN Ok(<<>>)
    ELSE Err(Msg("is not a valid name"))

\* safe_char
safe_char(ch) ==
    IF is_control(ch) THEN Err(Msg("control characters not allowed"))
    ELSE IF ch \in {DQUOTE, ";", ":", ","} THEN Err(Msg("not allowed"))
    ELSE Ok(<<>>)

\* qsafe_char without its arm for the double quote.
qsafe_char_quoteAllowed(ch) ==
    IF is_control(ch) THEN Err(Msg("control characters not allowed")) ELSE Ok(<<>>)

\* qsafe_char
qsafe_char(ch) ==
    IF is_control(ch) THEN Err(Msg("control characters not allowed"))
    ELSE IF ch = DQUOTE THEN Err(Msg("double quote is not allowed"))
    ELSE Ok(<<>>)

\* check_param_text: the error of the first character that is not safe.
check_param_text(s) ==
    Bind({i \in 1..Len(s) : ~safe_char(s[i]).ok}, LAMBDA bad :
       IF bad = {} THEN Ok(<<>>) ELSE safe_char(s[Min(bad)]))

\* str::trim_matches('"')
RECURSIVE trim_matches_quote(_)
trim_matches_quote(s) ==
    IF s = <<>> THEN s
    ELSE IF s[1] = DQUOTE THEN trim_matches_quote(Tail(s))
    ELSE IF s[Len(s)] = DQUOTE THEN trim_matches_quote(SubSeq(s, 1, Len(s) - 1))
    ELSE s

\* quoted_string: the input without its start and end quotes.  iter.next()
\* takes the first character and iter.next_back() the last of what is left.
quoted_string(s, owned) ==
    IF ~(Len(s) >= 1 /\ s[1] = DQUOTE)
    THEN Err(Msg("quoted string must start with double quote"))
    ELSE IF ~(Len(s) >= 2 /\ s[Len(s)] = DQUOTE)
    THEN Err(Msg("quoted string must end with double quote"))
    ELSE Bind({i \in 2..(Len(s) - 1) : ~qsafe_char(s[i]).ok}, LAMBDA bad :
            IF bad # {} THEN qsafe_char(s[Min(bad)])
            ELSE IF ~owned
                 THEN Ok(trim_matches_quote(s))
                 ELSE Ok(Tail(SubSeq(s, 1, Len(s) - 1))))

\* param_value
param_value(s, owned) ==
    IF starts_with(s, DQUOTE)
    THEN quoted_string(s, owned)
    ELSE IF check_param_text(s).ok THEN Ok(s) ELSE check_param_text(s)

\* ------------------------------------------- parser/lexer.rs: Name, XName

Iana(value) == [kind |-> "Iana", vendor |-> None, value |-> value]

XName(vendor, value) == [kind |-> "XName", vendor |-> vendor, value |-> value]

\* The vendor test as it would be if it did not look at the fourth
\* character.
HasVendor_noDash(s) ==
    /\ Len(s) >= 4
    /\ is_ascii_alphanumeric(s[1])
    /\ is_ascii_alphanumeric(s[2])
    /\ is_ascii_alphanumeric(s[3])

\* The test that XName::parse_borrowed and parse_owned make on the first four
\* characters: three ASCII alphanumerics and a '-'.
HasVendor(s) ==
    /\ Len(s) >= 4
    /\ is_ascii_alphanumeric(s[1])
    /\ is_ascii_alphanumeric(s[2])
    /\ is_ascii_alphanumeric(s[3])
    /\ s[4] = "-"

\* XName::parse: the extension name written s (after its "X-").
XNameParse(s, owned) ==
    IF ~owned
    THEN IF HasVendor(s)
         THEN LET vendor == SubSeq(s, 1, 3)
                  value == SliceFrom(s, 4)
              IN IF check_iana_token(value).ok
                 THEN Ok(XName(Some(vendor), value))
                 ELSE check_iana_token(value)
         ELSE IF check_iana_token(s).ok
              THEN Ok(XName(None, s))
              ELSE check_iana_token(s)
    ELSE Bind(IF HasVendor(s) THEN Some(SubSeq(s, 1, 3)) ELSE None, LAMBDA vendor :
         Bind(IF HasVendor(s) THEN pop_front_bytes(s, 4) ELSE s, LAMBDA value :
            IF check_iana_token(value).ok
            THEN Ok(XName(vendor, value))
            ELSE check_iana_token(value)))

\* Name::parse
NameParse(s, owned) ==
    IF Len(s) >= 2 /\ SubSeq(s, 1, 2) = <<"X", "-">>
    THEN XNameParse(IF owned THEN pop_front_bytes(s, 2) ELSE SliceFrom(s, 2), owned)
    ELSE IF check_iana_token(s).ok THEN Ok(Iana(s)) ELSE check_iana_token(s)

\* --------------------------------------------------- parser/param_map.rs

\* ParamMap::default(): no parameter.  A ParamMap is the set of its entries,
\* a name with its list of values (the two hash maps, keyed by the IANA name
\* and by the XName, taken together; a key has one entry).
EmptyParams == {}

HasParam(params, name) == \E e \in params : e.name = name

ParamValues(params, name) == (CHOOSE e \in params : e.name = name).values

\* ParamMap::push
push(params, name, value) ==
    IF HasParam(params, name)
    THEN {e \in params : e.name # name}
             \cup {[name |-> name, values |-> Append(ParamValues(params, name), value)]}
    ELSE params \cup {[name |-> name, values |-> <<value>>]}

\* add_values as it would be if the values given replaced the ones the map
\* has under the name.
add_values_replace(params, name, values) ==
    IF values = <<>> THEN params
    ELSE {e \in params : e.name # name} \cup {[name |-> name, values |-> values]}

\* ParamMap::add_values
add_values(params, name, values) ==
    IF values = <<>> THEN params
    ELSE IF HasParam(params, name)
         THEN {e \in params : e.name # name}
                  \cup {[name |-> name, values |-> ParamValues(params, name) \o values]}
         ELSE params \cup {[name |-> name, values |-> values]}

\* ParamMap::take: the values removed, and the map without them.
take(params, key) ==
    IF HasParam(params, key)
    THEN [value |-> Some(ParamValues(params, key)),
          params |-> {e \in params : e.name # key}]
    ELSE [value |-> None, params |-> params]

\* The while !input.is_empty() loop of ParamMap::parse_param: the values of
\* one parameter, from the text after its '='.  pieces is the list of the
\* texts the loop has split off (history).
RECURSIVE ParamValuesLoop(_, _, _, _)
ParamValuesLoop(inp, owned, values, pieces) ==
    IF inp = <<>> THEN Ok([values |-> values, pieces |-> pieces])
    ELSE Bind(split_once_outside_quotes(inp, owned, ","), LAMBDA sp :
         Bind(param_value(sp[1], owned), LAMBDA v :
            IF ~v.ok THEN v
            ELSE ParamValuesLoop(sp[2], owned, Append(values, v.val),
                                 Append(pieces, sp[1]))))

\* ParamMap::parse_param: the map with the parameter written inp added.
parse_param(params, inp, owned) ==
    Bind(try_split_once(inp, owned, "="), LAMBDA sp :
       IF ~sp.ok THEN Err(Msg("invalid parameter: no '='"))
       ELSE Bind(NameParse(sp.val[1], owned), LAMBDA name :
            Bind(ParamValuesLoop(sp.val[2], owned, <<>>, <<>>), LAMBDA vs :
               IF ~name.ok THEN name
               ELSE IF ~vs.ok THEN vs
               ELSE Ok([params |-> add_values(params, name.val, vs.val.values),
                        pieces |-> vs.val.pieces]))))

\* ------------------------------------------------- parser/line.rs: Line

\* The while !loop_rest.is_empty() loop of Line::parse.  split is the list
\* of the texts the loop has split off, each with the texts its value list was
\* split into (history).
RECURSIVE ParamsLoop(_, _, _, _)
ParamsLoop(loop_rest, owned, params, split) ==
    IF loop_rest = <<>> THEN Ok([params |-> params, split |-> split])
    ELSE Bind(split_once_outside_quotes(loop_rest, owned, ";"), LAMBDA sp :
         Bind(parse_param(params, sp[1], owned), LAMBDA p :
            IF ~p.ok THEN p
            ELSE ParamsLoop(sp[2], owned, p.val.params,
                            Append(split, [param |-> sp[1], values |-> p.val.pieces]))))

\* Line::parse: the Line a logical line splits into.  params_str and split
\* are history (the parameter section and how it was split).
LineParse(inp, owned) ==
    Bind(try_split_once(inp, owned, ":"), LAMBDA pv :
       IF ~pv.ok THEN Err(Msg("malformed icalendar line"))
       ELSE Bind(pv.val[1], LAMBDA prefix :
            Bind(pv.val[2], LAMBDA value :
            Bind(split_once(prefix, owned, ";"), LAMBDA np :
            Bind(NameParse(np[1], owned), LAMBDA name :
            Bind(ParamsLoop(np[2], owned, EmptyParams, <<>>), LAMBDA ps :
               IF ~name.ok THEN name
               ELSE IF ~ps.ok THEN ps
               ELSE Ok([name |-> name.val,
                        params |-> ps.val.params,
                        value |-> value,
                        params_str |-> np[2],
                        split |-> ps.val.split])))))))

\* ----------------------------------------------- the standard library

is_ascii_digit(ch) == ch \in Digit

\* The value of a decimal digit.
DigitValue(ch) ==
    CASE ch = "0" -> 0 [] ch = "1" -> 1 [] ch = "2" -> 2 [] ch = "3" -> 3
      [] ch = "4" -> 4 [] ch = "5" -> 5 [] ch = "6" -> 6 [] ch = "7" -> 7
      [] ch = "8" -> 8 [] ch = "9" -> 9

\* The number a string of decimal digits writes.
RECURSIVE DecimalValue(_)
DecimalValue(s) ==
    IF s = <<>> THEN 0
    ELSE DecimalValue(SubSeq(s, 1, Len(s) - 1)) * 10 + DigitValue(s[Len(s)])

\* a < b for two strings of decimal digits of the same length.
RECURSIVE DigitsLess(_, _)
DigitsLess(a, b) ==
    IF a = <<>> THEN FALSE
    ELSE IF a[1] # b[1] THEN DigitValue(a[1]) < DigitValue(b[1])
    ELSE DigitsLess(Tail(a), Tail(b))

RECURSIVE StripLeadingZeros(_)
StripLeadingZeros(s) ==
    IF s # <<>> /\ s[1] = "0" THEN StripLeadingZeros(Tail(s)) ELSE s

\* The number that the digits a write exceeds the one that the digits b write.
DecimalGreater(a, b) ==
    Bind(StripLeadingZeros(a), LAMBDA x :
    Bind(StripLeadingZeros(b), LAMBDA y :
       Len(x) > Len(y) \/ (Len(x) = Len(y) /\ DigitsLess(y, x))))

\* The digits of u8::MAX, u16::MAX, u32::MAX and u64::MAX.
U8Max == <<"2", "5", "5">>
U16Max == <<"6", "5", "5", "3", "5">>
U32Max == <<"4", "2", "9", "4", "9", "6", "7", "2", "9", "5">>
U64Max == <<"1", "8", "4", "4", "6", "7", "4", "4", "0", "7", "3", "7", "0", "9", "5", "5", "1", "6", "1", "5">>

\* str::parse for an unsigned integer type of maximum max: an optional '+',
\* then at least one digit and nothing but digits, and no overflow.  The
\* number is given by its digits without leading zeros (no digit for 0).
parse_unsigned(s, max) ==
    Bind(IF starts_with(s, "+") THEN Tail(s) ELSE s, LAMBDA digits :
       IF s = <<>> THEN Err(Msg("cannot parse integer from empty string"))
       ELSE IF digits = <<>> \/ \E i \in 1..Len(digits) : ~is_ascii_digit(digits[i])
            THEN Err(Msg("invalid digit found in string"))
       ELSE IF DecimalGreater(digits, max)
            THEN Err(Msg("number too large to fit in target type"))
       ELSE Ok(StripLeadingZeros(digits)))

\* str::parse::<u8>: the number itself.
parse_u8(s) ==
    Bind(parse_unsigned(s, U8Max), LAMBDA r :
       IF r.ok THEN Ok(DecimalValue(r.val)) ELSE r)

\* str::parse::<u16>: the number itself.
parse_u16(s) ==
    Bind(parse_unsigned(s, U16Max), LAMBDA r :
       IF r.ok THEN Ok(DecimalValue(r.val)) ELSE r)

\* str::parse::<u64>: the number by its digits without leading zeros.
parse_u64(s) == parse_unsigned(s, U64Max)

\* str::parse for f64, on the decimal forms without exponent: an optional
\* sign, digits, and an optional '.' with digits, at least one digit in all.
\* The number is kept as its sign, its integer digits without leading zeros
\* and its fraction digits without trailing zeros.
RECURSIVE StripTrailingZeros(_)
StripTrailingZeros(s) ==
    IF s # <<>> /\ s[Len(s)] = "0"
    THEN StripTrailingZeros(SubSeq(s, 1, Len(s) - 1))
    ELSE s

parse_f64(s) ==
    Bind(Len(s) > 0 /\ s[1] \in {"+", "-"}, LAMBDA signed :
    Bind(IF signed THEN Tail(s) ELSE s, LAMBDA body :
    Bind(find(body, "."), LAMBDA dot :
    Bind(IF dot = 0 THEN body ELSE SubSeq(body, 1, dot - 1), LAMBDA whole :
    Bind(IF dot = 0 THEN <<>> ELSE SliceFrom(body, dot), LAMBDA frac :
       IF /\ Len(whole) + Len(frac) > 0
          /\ \A i \in 1..Len(whole) : is_ascii_digit(whole[i])
          /\ \A i \in 1..Len(frac) : is_ascii_digit(frac[i])
       THEN Ok([negative |-> signed /\ s[1] = "-",
                whole |-> StripLeadingZeros(whole),
                frac |-> StripTrailingZeros(frac)])
       ELSE Err(Msg("invalid float literal")))))))

\* ------------------------------------- parser/helpers.rs: number parsers

\* ParserError::out_of_range
out_of_range(ty, min, max, value) ==
    [msg |-> "out of range value", ty |-> ty, min |-> min, max |-> max, value |-> value]

\* The number of leading characters of s that are decimal digits, at most max.
RECURSIVE DigitRun(_, _)
DigitRun(s, max) ==
    IF max = 0 \/ s = <<>> \/ ~is_ascii_digit(s[1]) THEN 0
    ELSE 1 + DigitRun(Tail(s), max - 1)

\* take_while_m_n with the predicate is_ascii_digit: the rest of the input and
\* the digits taken, at least min and at most max.
take_while_m_n(min, max, s) ==
    IF DigitRun(s, min) < min
    THEN Err(Msg("expected numeric digit"))
    ELSE Bind(DigitRun(s, max), LAMBDA first_len :
            Ok([rest |-> SliceFrom(s, first_len), val |-> SubSeq(s, 1, first_len)]))

\* The body shared by _1or2_digit_int, _1to3_digit_int and _1to4_digit_int:
\* up to digits digits, parsed with parse_int and checked
\* against min..max.
digit_int(digits, parse_int(_), ty, min, max, s) ==
    LET t == take_while_m_n(1, digits, s)
        val == parse_int(t.val.val)
    IN IF ~t.ok THEN t
       ELSE IF ~val.ok THEN val
       ELSE IF val.val < min \/ val.val > max
            THEN Err(out_of_range(ty, min, max, val.val))
       ELSE Ok([rest |-> t.val.rest, val |-> val.val])

_1or2_digit_int(ty, min, max, s) == digit_int(2, parse_u8, ty, min, max, s)

_1to4_digit_int(ty, min, max, s) == digit_int(4, parse_u16, ty, min, max, s)

\* tag: the input after the literal t.
tag(t, s) ==
    IF Len(s) >= Len(t) /\ SubSeq(s, 1, Len(t)) = t
    THEN Ok([rest |-> SliceFrom(s, Len(t)), val |-> t])
    ELSE Err([msg |-> "expected tag", tag |-> t])

\* parse_u32: None when the input starts with no digit, an error on overflow,
\* otherwise the number its leading digits write (by its digits without
\* leading zeros) and the rest of the input.
parse_u32(s) ==
    Bind(DigitRun(s, Len(s)), LAMBDA n :
       IF n = 0 THEN Ok(None)
       ELSE IF DecimalGreater(SubSeq(s, 1, n), U32Max)
            THEN Err(Msg("overflow"))
       ELSE Ok(Some([rest |-> SliceFrom(s, n),
                     val |-> StripLeadingZeros(SubSeq(s, 1, n))])))

\* --------------------------------------------- types/mod.rs: Date, Time

\* Date::parse with the leap years of the Gregorian calendar in place of
\* year % 4 == 0.
DateParse_gregorian(s) ==
    Bind(_1to4_digit_int("year", 0, 65535, s), LAMBDA year :
    Bind(year.val.val % 4 = 0 /\ (year.val.val % 100 # 0 \/ year.val.val % 400 = 0),
         LAMBDA leap_year :
    Bind(_1or2_digit_int("month", 1, 12, year.val.rest), LAMBDA month :
    Bind(IF month.val.val = 2
                   THEN IF leap_year THEN 29 ELSE 28
                   ELSE IF month.val.val \in {4, 6, 9, 11} THEN 30 ELSE 31, LAMBDA max_day :
    Bind(_1or2_digit_int("day", 1, max_day, month.val.rest), LAMBDA day :
       IF ~year.ok THEN year
       ELSE IF ~month.ok THEN month
       ELSE IF ~day.ok THEN day
       ELSE Ok([rest |-> day.val.rest,
                val |-> [full_year |-> year.val.val,
                         month |-> month.val.val,
                         day |-> day.val.val]]))))))

\* Date::parse
DateParse(s) ==
    Bind(_1to4_digit_int("year", 0, 65535, s), LAMBDA year :
    Bind(year.val.val % 4 = 0, LAMBDA leap_year :
    Bind(_1or2_digit_int("month", 1, 12, year.val.rest), LAMBDA month :
    Bind(IF month.val.val = 2
                   THEN IF leap_year THEN 29 ELSE 28
                   ELSE IF month.val.val \in {4, 6, 9, 11} THEN 30 ELSE 31, LAMBDA max_day :
    Bind(_1or2_digit_int("day", 1, max_day, month.val.rest), LAMBDA day :
       IF ~year.ok THEN year
       ELSE IF ~month.ok THEN month
       ELSE IF ~day.ok THEN day
       ELSE Ok([rest |-> day.val.rest,
                val |-> [full_year |-> year.val.val,
                         month |-> month.val.val,
                         day |-> day.val.val]]))))))

\* The body shared by time_hour, time_minute and time_second: the first two
\* bytes parsed as u8, refused from limit on, with the range the error
\* reports.
time_field(ty, limit, min, max, s) ==
    IF Len(s) < 2 THEN Err(Msg("expected 2 ascii digits"))
    ELSE Bind(parse_u8(SubSeq(s, 1, 2)), LAMBDA v :
            IF ~v.ok THEN v
            ELSE IF v.val >= limit THEN Err(out_of_range(ty, min, max, v.val))
            ELSE Ok([rest |-> SliceFrom(s, 2), val |-> v.val]))

time_hour(s) == time_field("hour", 24, 0, 23, s)

time_minute(s) == time_field("minute", 60, 0, 60, s)

time_second(include_leap, s) ==
    IF include_leap
    THEN time_field("seconds", 61, 0, 60, s)
    ELSE time_field("seconds", 60, 0, 59, s)

\* Time::parse
TimeParse(s) ==
    Bind(time_hour(s), LAMBDA hour :
    Bind(time_minute(hour.val.rest), LAMBDA minute :
    Bind(time_second(TRUE, minute.val.rest), LAMBDA second :
    Bind(second.val.rest, LAMBDA after :
    Bind(starts_with(after, "Z"), LAMBDA utc :
       IF ~hour.ok THEN hour
       ELSE IF ~minute.ok THEN minute
       ELSE IF ~second.ok THEN second
       ELSE Ok([rest |-> IF utc THEN Tail(after) ELSE after,
                val |-> [hour |-> hour.val.val,
                         minute |-> minute.val.val,
                         second |-> second.val.val,
                         utc |-> utc]]))))))

\* DateTime::parse
DateTimeParse(s) ==
    Bind(DateParse(s), LAMBDA date :
    Bind(tag(<<"T">>, date.val.rest), LAMBDA t :
    Bind(TimeParse(t.val.rest), LAMBDA time :
       IF ~date.ok THEN date
       ELSE IF ~t.ok THEN t
       ELSE IF ~time.ok THEN time
       ELSE Ok([rest |-> time.val.rest,
                val |-> [date |-> date.val.val, time |-> time.val.val]]))))

\* DateOrDateTime::Date(date) and DateOrDateTime::DateTime(date_time)
DateOrDateTime_Date(date) == [variant |-> "Date", date |-> date]

DateOrDateTime_DateTime(dt) == [variant |-> "DateTime", date |-> dt.date, time |-> dt.time]

\* DateOrDateTime::parse
DateOrDateTimeParse(s) ==
    Bind(DateParse(s), LAMBDA date :
    Bind(tag(<<"T">>, date.val.rest), LAMBDA t :
    Bind(TimeParse(t.val.rest), LAMBDA time :
       IF ~date.ok THEN date
       ELSE IF starts_with(date.val.rest, "T")
            THEN IF ~t.ok THEN t
                 ELSE IF ~time.ok THEN time
                 ELSE Ok([rest |-> time.val.rest,
                          val |-> DateOrDateTime_DateTime(
                                      [date |-> date.val.val, time |-> time.val.val])])
            ELSE Ok([rest |-> date.val.rest, val |-> DateOrDateTime_Date(date.val.val)]))))


\* -------------------------------------------- types/mod.rs: fmt::Display

\* The decimal digit of a number below ten.
DigitChar(n) ==
    CASE n = 0 -> "0" [] n = 1 -> "1" [] n = 2 -> "2" [] n = 3 -> "3"
      [] n = 4 -> "4" [] n = 5 -> "5" [] n = 6 -> "6" [] n = 7 -> "7"
      [] n = 8 -> "8" [] n = 9 -> "9"

\* {} of an unsigned integer: its decimal digits.
RECURSIVE Decimal(_)
Decimal(n) ==
    IF n < 10 THEN <<DigitChar(n)>> ELSE Decimal(n \div 10) \o <<DigitChar(n % 10)>>

\* {:0width} of an unsigned integer: its decimal digits, with zeros in front
\* of them up to width characters and none when they are width or more.
RECURSIVE ZeroPadTo(_, _)
ZeroPadTo(width, digits) ==
    IF Len(digits) >= width THEN digits ELSE ZeroPadTo(width, <<"0">> \o digits)

\* {} in place of {:0width}.
ZeroPad_unpadded(width, n) == Decimal(n)

ZeroPad(width, n) == ZeroPadTo(width, Decimal(n))

\* impl fmt::Display for Date
DateDisplay(self) ==
    ZeroPad(4, self.full_year) \o ZeroPad(2, self.month) \o ZeroPad(2, self.day)

\* impl fmt::Display for Time
TimeDisplay(self) ==
    ZeroPad(2, self.hour) \o ZeroPad(2, self.minute) \o ZeroPad(2, self.second)
        \o (IF self.utc THEN <<"Z">> ELSE <<>>)

\* impl fmt::Display for DateTime
DateTimeDisplay(self) == DateDisplay(self.date) \o <<"T">> \o TimeDisplay(self.time)

\* impl fmt::Display for DateOrDateTime
DateOrDateTimeDisplay(self) ==
    IF self.variant = "Date"
    THEN DateDisplay(self.date)
    ELSE DateTimeDisplay([date |-> self.date, time |-> self.time])

\* ------------------------------------------------ types/mod.rs: Duration

\* opt_sign_is_negative
opt_sign_is_negative(s) ==
    IF starts_with(s, "+") THEN [rest |-> Tail(s), negative |-> FALSE]
    ELSE IF starts_with(s, "-") THEN [rest |-> Tail(s), negative |-> TRUE]
    ELSE [rest |-> s, negative |-> FALSE]

\* parse_secs of DurationKind::parse: the rest of the input and the seconds.
parse_secs(s, seconds) ==
    Bind(parse_u32(s), LAMBDA p :
       IF ~p.ok THEN p
       ELSE IF ~p.val.some THEN Ok([rest |-> s, seconds |-> seconds])
       ELSE IF ~tag(<<"S">>, p.val.val.rest).ok THEN Ok([rest |-> s, seconds |-> seconds])
       ELSE Ok([rest |-> tag(<<"S">>, p.val.val.rest).val.rest, seconds |-> p.val.val.val]))

\* parse_mins_secs of DurationKind::parse: the rest of the input, the minutes
\* and the seconds.
parse_mins_secs(s, minutes, seconds) ==
    Bind(parse_u32(s), LAMBDA p :
    Bind(tag(<<"M">>, p.val.val.rest), LAMBDA m :
    Bind(parse_secs(m.val.rest, seconds), LAMBDA secs :
       IF ~p.ok THEN p
       ELSE IF ~p.val.some THEN Ok([rest |-> s, minutes |-> minutes, seconds |-> seconds])
       ELSE IF ~m.ok THEN Ok([rest |-> s, minutes |-> minutes, seconds |-> seconds])
       ELSE IF ~secs.ok THEN secs
       ELSE Ok([rest |-> secs.val.rest, minutes |-> p.val.val.val,
                seconds |-> secs.val.seconds]))))

DurationKind_Weeks(n) == [variant |-> "Weeks", weeks |-> n]

DurationKind_DateTime(days, hours, minutes, seconds) ==
    [variant |-> "DateTime", days |-> days, hours |-> hours,
     minutes |-> minutes, seconds |-> seconds]

\* The part of DurationKind::parse from tag("T") on, with the days read.
DurationTimePart(s, days) ==
    Bind(<<>>, LAMBDA zero :
    Bind(tag(<<"T">>, s), LAMBDA t :
    Bind(parse_u32(t.val.rest), LAMBDA p :
    Bind(p.val.val.rest, LAMBDA after :
    Bind(p.val.val.val, LAMBDA num :
    Bind(parse_mins_secs(Tail(after), zero, zero), LAMBDA ms :
    Bind(parse_secs(Tail(after), zero), LAMBDA ss :
       IF ~t.ok THEN t
       ELSE IF ~p.ok THEN p
       ELSE IF ~p.val.some THEN Err(Msg("expected integer"))
       ELSE IF starts_with(after, "H")
            THEN IF ~ms.ok THEN ms
                 ELSE Ok([rest |-> ms.val.rest,
                          val |-> DurationKind_DateTime(days, num, ms.val.minutes,
                                                        ms.val.seconds)])
       ELSE IF starts_with(after, "M")
            THEN IF ~ss.ok THEN ss
                 ELSE Ok([rest |-> ss.val.rest,
                          val |-> DurationKind_DateTime(days, zero, num, ss.val.seconds)])
       ELSE IF starts_with(after, "S")
            THEN Ok([rest |-> Tail(after),
                     val |-> DurationKind_DateTime(days, zero, zero, num)])
       ELSE Err(Msg("expected one of H, M, S")))))))))

\* DurationKind::parse
DurationKindParse(s) ==
    IF ~starts_with(s, "T")
    THEN \* there must be days
         LET p == parse_u32(s)
             i == p.val.val.rest
         IN IF ~p.ok THEN p
            ELSE IF ~p.val.some THEN Err(Msg("expected integer or T"))
            ELSE IF starts_with(i, "W")
                 THEN Ok([rest |-> Tail(i), val |-> DurationKind_Weeks(p.val.val.val)])
            ELSE IF starts_with(i, "D")
                 THEN DurationTimePart(Tail(i), p.val.val.val)
            ELSE Err(Msg("expected W or D"))
    ELSE DurationTimePart(s, <<>>)

\* Duration::parse
DurationParse(s) ==
    Bind(opt_sign_is_negative(s), LAMBDA sign :
    Bind(tag(<<"P">>, sign.rest), LAMBDA p :
    Bind(DurationKindParse(p.val.rest), LAMBDA kind :
       IF ~p.ok THEN p
       ELSE IF ~kind.ok THEN kind
       ELSE Ok([rest |-> kind.val.rest,
                val |-> [negative |-> sign.negative, kind |-> kind.val.val]]))))

\* ----------------------------------- types/location.rs, types/priority.rs

\* GeoLocation::from_str
GeoLocationFromStr(s) ==
    Bind(find(s, ";"), LAMBDA at :
    Bind(parse_f64(SubSeq(s, 1, at - 1)), LAMBDA latitude :
    Bind(parse_f64(SliceFrom(s, at)), LAMBDA longitude :
       IF at = 0 THEN Err(Msg("expected semicolon"))
       ELSE IF ~latitude.ok THEN latitude
       ELSE IF ~longitude.ok THEN longitude
       ELSE Ok([latitude |-> latitude.val, longitude |-> longitude.val]))))

\* Priority::new
PriorityNew(priority) == IF priority < 9 THEN priority ELSE 9

\* Priority::from_str
PriorityFromStr(s) ==
    Bind(parse_u8(s), LAMBDA v :
       IF ~v.ok THEN v ELSE Ok(PriorityNew(v.val)))

\* -------------------------------------------------------- values.rs: Uri

\* The length of the scheme of s with its colon, 0 when s does not start with a
\* scheme (a letter, then letters, digits, '+', '-' and '.', then ':').
SchemeLen(s) ==
    Bind(find(s, ":"), LAMBDA colon :
       IF /\ colon >= 2
          /\ s[1] \in Upper \cup Lower
          /\ \A i \in 2..(colon - 1) : is_ascii_alphanumeric(s[i]) \/ s[i] \in {"+", "-", "."}
       THEN colon
       ELSE 0)

\* Uri::try_from, CalendarUserAddress::try_from: the URI crate's parse, as far
\* as the scheme goes: a text without scheme is refused, and the URI is its
\* scheme and what follows the ':'.
UriTryFrom(s) ==
    IF SchemeLen(s) = 0 THEN Err(Msg("invalid URI"))
    ELSE Ok([scheme |-> SubSeq(s, 1, SchemeLen(s) - 1), rest |-> SliceFrom(s, SchemeLen(s))])


\* -------------------------------------------- types/name.rs: comparison

\* impl PartialEq<str> for Name: name == other.  An extension name is
\* compared with the extension name that other parses to.
NameEq(name, other) ==
    IF name.kind = "XName"
    THEN LET o == XNameParse(other, FALSE)
         IN o.ok /\ name = o.val
    ELSE name.value = other

\* ------------------------------------------------ parameters of a line

\* VecOne::get_single as it would be if it returned the first element of a
\* longer list.
get_single_first(values) == Ok(values[1])

\* VecOne::get_single
get_single(values) ==
    IF Len(values) > 1
    THEN Err([msg |-> "expected 1 element", found |-> Len(values)])
    ELSE Ok(values[1])

\* ParamMap::take_ty for the parameter type whose name is key: absent when the
\* line has no such parameter, else the parameter's values, which must be a
\* single one unless the type holds a list; the map is left without them.
take_ty(params, key, list) ==
    Bind(take(params, key), LAMBDA t :
    Bind(get_single(t.value.val), LAMBDA one :
       IF ~t.value.some THEN Ok([value |-> None, params |-> params])
       ELSE IF list THEN Ok([value |-> t.value, params |-> t.params])
       ELSE IF ~one.ok THEN one
       ELSE Ok([value |-> Some(one.val), params |-> t.params])))

\* Line::first_iana_param is Some
HasIanaParam(line) == \E e \in line.params : e.name.kind = "Iana"

\* parse_date_or_datetime: a date-time, or a date when the line has the
\* parameter VALUE=DATE.
parse_date_or_datetime(line) ==
    Bind(take(line.params, Iana(<<"V", "A", "L", "U", "E">>)), LAMBDA v :
    Bind(get_single(v.value.val), LAMBDA single :
    Bind(IF v.value.some THEN single.val = <<"D", "A", "T", "E", "-", "T", "I", "M", "E">> ELSE TRUE, LAMBDA is_datetime :
    Bind(DateTimeParse(line.value), LAMBDA datetime :
    Bind(DateParse(line.value), LAMBDA date :
       IF v.value.some /\ ~single.ok THEN single
       ELSE IF v.value.some /\ single.val \notin {<<"D", "A", "T", "E", "-", "T", "I", "M", "E">>, <<"D", "A", "T", "E">>}
            THEN Err(Msg("unexpected recurrance id VALUE param"))
       ELSE IF is_datetime
            THEN IF ~datetime.ok THEN datetime
                 ELSE Ok(DateOrDateTime_DateTime(datetime.val.val))
            ELSE IF ~date.ok THEN date
                 ELSE Ok(DateOrDateTime_Date(date.val.val)))))))

\* The while let Ok((i, _)) = tag(",")(input) loops of
\* parse_date_or_datetime_list, with the values read so far.
RECURSIVE DateListLoop(_, _, _)
DateListLoop(s, is_datetime, output) ==
    IF ~tag(<<",">>, s).ok THEN Ok(output)
    ELSE Bind(tag(<<",">>, s).val.rest, LAMBDA i :
         Bind(DateTimeParse(i), LAMBDA datetime :
         Bind(DateParse(i), LAMBDA date :
            IF is_datetime
            THEN IF ~datetime.ok THEN datetime
                 ELSE DateListLoop(datetime.val.rest, is_datetime,
                                   Append(output, DateOrDateTime_DateTime(datetime.val.val)))
            ELSE IF ~date.ok THEN date
                 ELSE DateListLoop(date.val.rest, is_datetime,
                                   Append(output, DateOrDateTime_Date(date.val.val))))))

\* parse_date_or_datetime_list
parse_date_or_datetime_list(line) ==
    Bind(take(line.params, Iana(<<"V", "A", "L", "U", "E">>)), LAMBDA v :
    Bind(get_single(v.value.val), LAMBDA single :
    Bind(IF v.value.some THEN single.val = <<"D", "A", "T", "E", "-", "T", "I", "M", "E">> ELSE TRUE, LAMBDA is_datetime :
    Bind(DateTimeParse(line.value), LAMBDA datetime :
    Bind(DateParse(line.value), LAMBDA date :
       IF v.value.some /\ ~single.ok THEN single
       ELSE IF v.value.some /\ single.val \notin {<<"D", "A", "T", "E", "-", "T", "I", "M", "E">>, <<"D", "A", "T", "E">>}
            THEN Err(Msg("unexpected recurrance id VALUE param"))
       ELSE IF is_datetime
            THEN IF ~datetime.ok THEN datetime
                 ELSE DateListLoop(datetime.val.rest, TRUE,
                                   <<DateOrDateTime_DateTime(datetime.val.val)>>)
            ELSE IF ~date.ok THEN date
                 ELSE DateListLoop(date.val.rest, FALSE,
                                   <<DateOrDateTime_Date(date.val.val)>>))))))

\* ------------------------------------------------------ values.rs: Text

\* A panic: the call does not return.
Panic(msg) == [ok |-> FALSE, err |-> [msg |-> msg, panic |-> TRUE]]

\* impl TryFrom<&str> for Text from offset i on.  output is the list of the
\* elements read, the last one being output.current(), current_owned tells
\* whether that one is a Cow::Owned, and current_start is the offset at which
\* the slice of a borrowed one starts.
RECURSIVE TextLoopBorrowed(_, _, _, _, _)
TextLoopBorrowed(s, i, output, current_start, current_owned) ==
    Bind(Len(output), LAMBDA n :
       IF i > Len(s) THEN Ok(output)
       ELSE IF s[i] = "\\"
            THEN IF i + 1 <= Len(s) /\ s[i + 1] \in {"\\", ",", ";"}
                 THEN TextLoopBorrowed(s, i + 2, [output EXCEPT ![n] = Append(@, s[i + 1])],
                                       current_start, TRUE)
                 ELSE IF i + 1 <= Len(s) /\ s[i + 1] \in {"N", "n"}
                 THEN TextLoopBorrowed(s, i + 2, [output EXCEPT ![n] = Append(@, LF)],
                                       current_start, TRUE)
                 ELSE Err(Msg("unexpected character after escape"))
       ELSE IF s[i] = ","
            THEN \* start_new pushes Cow::Borrowed("")
                 TextLoopBorrowed(s, i + 1, Append(output, <<>>), i, FALSE)
       ELSE IF s[i] = ";" THEN Err(Msg("semicolon should be escaped in text"))
       ELSE \* add_to_current
            IF current_owned
            THEN TextLoopBorrowed(s, i + 1, [output EXCEPT ![n] = Append(@, s[i])],
                                  current_start, TRUE)
            ELSE TextLoopBorrowed(s, i + 1,
                                  [output EXCEPT ![n] = SubSeq(s, current_start + 1, i)],
                                  current_start, FALSE))

\* impl TryFrom<String> for Text from offset i on.  The first element is a
\* Cow::Owned, start_new pushes a Cow::Borrowed(""), to_mut makes the current
\* element owned, and push_to_current of a borrowed one is unreachable!().
RECURSIVE TextLoopOwned(_, _, _, _)
TextLoopOwned(s, i, output, current_owned) ==
    Bind(Len(output), LAMBDA n :
       IF i > Len(s) THEN Ok(output)
       ELSE IF s[i] = "\\"
            THEN IF i + 1 <= Len(s) /\ s[i + 1] \in {"\\", ",", ";"}
                 THEN TextLoopOwned(s, i + 2, [output EXCEPT ![n] = Append(@, s[i + 1])], TRUE)
                 ELSE IF i + 1 <= Len(s) /\ s[i + 1] \in {"N", "n"}
                 THEN TextLoopOwned(s, i + 2, [output EXCEPT ![n] = Append(@, LF)], TRUE)
                 ELSE Err(Msg("unexpected character after escape"))
       ELSE IF s[i] = "," THEN TextLoopOwned(s, i + 1, Append(output, <<>>), FALSE)
       ELSE IF s[i] = ";" THEN Err(Msg("semicolon should be escaped in text"))
       ELSE \* push_to_current
            IF current_owned
            THEN TextLoopOwned(s, i + 1, [output EXCEPT ![n] = Append(@, s[i])], TRUE)
            ELSE Panic("internal error: entered unreachable code"))

\* impl TryFrom<Cow<str>> for Text
TextTryFrom(s, owned) ==
    IF owned
    THEN TextLoopOwned(s, 1, <<<<>>>>, TRUE)
    ELSE TextLoopBorrowed(s, 1, <<<<>>>>, 0, FALSE)

\* ------------------------------------------------- types/attachment.rs

Base64Chars == Upper \cup Lower \cup Digit \cup {"+", "/"}

\* BASE64_STANDARD.decode: the text must be whole groups of four characters
\* of the alphabet, the last group padded with at most two '='.  The data is
\* given by its base-64 digits.
Base64Decode(s) ==
    Bind(IF Len(s) >= 2 /\ s[Len(s)] = "=" /\ s[Len(s) - 1] = "=" THEN 2
               ELSE IF Len(s) >= 1 /\ s[Len(s)] = "=" THEN 1 ELSE 0, LAMBDA pad :
    Bind(SubSeq(s, 1, Len(s) - pad), LAMBDA digits :
       IF Len(s) % 4 = 0 /\ \A i \in 1..Len(digits) : digits[i] \in Base64Chars
       THEN Ok(digits)
       ELSE Err(Msg("invalid base64"))))

\* Data::parse_blob
parse_blob(s) ==
    IF Base64Decode(s).ok THEN Ok([variant |-> "Blob", blob |-> Base64Decode(s).val])
    ELSE Base64Decode(s)

\* Data::parse_uri
parse_uri(s) ==
    IF UriTryFrom(s).ok THEN Ok([variant |-> "Uri", uri |-> UriTryFrom(s).val])
    ELSE UriTryFrom(s)


\* ------------------------------------ parser/mod.rs: property handlers

\* parse_prodid
parse_prodid(line) ==
    IF HasIanaParam(line) THEN Err(Msg("unexpected param")) ELSE Ok(line.value)

\* parse_version
parse_version(line) ==
    IF HasIanaParam(line) THEN Err(Msg("unexpected param"))
    ELSE IF line.value # <<"2", ".", "0">> THEN Err(Msg("only version 2.0 supported"))
    ELSE Ok(<<>>)

\* parse_cal_scale
parse_cal_scale(line) ==
    IF HasIanaParam(line) THEN Err(Msg("unexpected param"))
    ELSE IF line.value = <<"G", "R", "E", "G", "O", "R", "I", "A", "N">> THEN Ok([variant |-> "Gregorian"])
    ELSE Bind(check_iana_token(line.value), LAMBDA token :
            IF ~token.ok THEN token
            ELSE Ok([variant |-> "Other", value |-> line.value]))

\* parse_class
parse_class(value, owned) ==
    IF value = <<"P", "U", "B", "L", "I", "C">> THEN Ok([variant |-> "Public"])
    ELSE IF value = <<"P", "R", "I", "V", "A", "T", "E">> THEN Ok([variant |-> "Private"])
    ELSE IF value = <<"C", "O", "N", "F", "I", "D", "E", "N", "T", "I", "A", "L">> THEN Ok([variant |-> "Confidential"])
    ELSE Bind(NameParse(value, owned), LAMBDA name :
            IF ~name.ok THEN name
            ELSE Ok([variant |-> name.val.kind, name |-> name.val]))

\* The parameters that parse_annotated_text, parse_comment and parse_contact
\* take: the language and the alternative representation.
TakeLangAltrep(line) ==
    Bind(take_ty(line.params, Iana(<<"L", "A", "N", "G", "U", "A", "G", "E">>), FALSE), LAMBDA lang :
    Bind(take_ty(lang.val.params, Iana(<<"A", "L", "T", "R", "E", "P">>), FALSE), LAMBDA altrep :
       IF ~lang.ok THEN lang
       ELSE IF ~altrep.ok THEN altrep
       ELSE Ok([lang |-> lang.val.value, altrep |-> altrep.val.value])))

\* parse_annotated_text
parse_annotated_text(line) ==
    Bind(TakeLangAltrep(line), LAMBDA p :
       IF ~p.ok THEN p
       ELSE Ok([lang |-> p.val.lang, altrep |-> p.val.altrep, text |-> line.value]))

\* parse_comment, parse_contact
parse_comment(line) ==
    Bind(TakeLangAltrep(line), LAMBDA p :
       IF ~p.ok THEN p
       ELSE Ok([lang |-> p.val.lang, altrep |-> p.val.altrep, value |-> line.value]))

\* parse_organizer
parse_organizer(line) ==
    Bind(take_ty(line.params, Iana(<<"C", "N">>), FALSE), LAMBDA common_name :
    Bind(take_ty(common_name.val.params, Iana(<<"D", "I", "R">>), FALSE), LAMBDA dir :
    Bind(take_ty(dir.val.params, Iana(<<"S", "E", "N", "T", "-", "B", "Y">>), FALSE), LAMBDA sent_by :
    Bind(take_ty(sent_by.val.params, Iana(<<"L", "A", "N", "G", "U", "A", "G", "E">>), FALSE), LAMBDA lang :
    Bind(UriTryFrom(line.value), LAMBDA value :
       IF ~common_name.ok THEN common_name
       ELSE IF ~dir.ok THEN dir
       ELSE IF ~sent_by.ok THEN sent_by
       ELSE IF ~lang.ok THEN lang
       ELSE IF ~value.ok THEN value
       ELSE Ok([dir |-> dir.val.value,
                common_name |-> common_name.val.value,
                sent_by |-> sent_by.val.value,
                lang |-> lang.val.value,
                value |-> value.val]))))))

\* parse_event_status
parse_event_status(line) ==
    IF line.value = <<"T", "E", "N", "T", "A", "T", "I", "V", "E">> THEN Ok("Tentative")
    ELSE IF line.value = <<"C", "O", "N", "F", "I", "R", "M", "E", "D">> THEN Ok("Confirmed")
    ELSE IF line.value = <<"C", "A", "N", "C", "E", "L", "L", "E", "D">> THEN Ok("Cancelled")
    ELSE Err(Msg("unexpected status"))

\* parse_time_transparency
parse_time_transparency(line) ==
    IF line.value = <<"O", "P", "A", "Q", "U", "E">> THEN Ok("Opaque")
    ELSE IF line.value = <<"T", "R", "A", "N", "S", "P", "A", "R", "E", "N", "T">> THEN Ok("Transparent")
    ELSE Err(Msg("unexpected time transparency value"))

\* parse_recurrence_id
parse_recurrence_id(line) ==
    Bind(take_ty(line.params, Iana(<<"R", "A", "N", "G", "E">>), FALSE), LAMBDA range :
    Bind(take_ty(range.val.params, Iana(<<"T", "Z", "I", "D">>), FALSE), LAMBDA timezone_id :
    Bind(parse_date_or_datetime([line EXCEPT !.params = timezone_id.val.params]), LAMBDA value :
       IF ~range.ok THEN range
       ELSE IF ~timezone_id.ok THEN timezone_id
       ELSE IF ~value.ok THEN value
       ELSE Ok([range |-> range.val.value,
                timezone_id |-> timezone_id.val.value,
                value |-> value.val]))))

\* parse_datetime_end
parse_datetime_end(line) ==
    Bind(take_ty(line.params, Iana(<<"T", "Z", "I", "D">>), FALSE), LAMBDA timezone_id :
    Bind(parse_date_or_datetime([line EXCEPT !.params = timezone_id.val.params]), LAMBDA value :
       IF ~timezone_id.ok THEN timezone_id
       ELSE IF ~value.ok THEN value
       ELSE Ok([variant |-> "DateTime",
                value |-> value.val,
                timezone_id |-> timezone_id.val.value])))

\* EventEnd::Duration(Duration::parse(value)?.1)
parse_duration_end(line) ==
    Bind(DurationParse(line.value), LAMBDA duration :
       IF ~duration.ok THEN duration
       ELSE Ok([variant |-> "Duration", duration |-> duration.val.val]))

\* parse_attachment
parse_attachment(line) ==
    Bind(take_ty(line.params, Iana(<<"F", "M", "T", "T", "Y", "P", "E">>), FALSE), LAMBDA fmt_type :
    Bind(take(fmt_type.val.params, Iana(<<"V", "A", "L", "U", "E">>)), LAMBDA v :
    Bind(take(v.params, Iana(<<"E", "N", "C", "O", "D", "I", "N", "G">>)), LAMBDA enc :
    Bind(IF v.value.some THEN parse_blob(line.value) ELSE parse_uri(line.value), LAMBDA data :
       IF ~fmt_type.ok THEN fmt_type
       ELSE IF v.value.some /\ ~get_single(v.value.val).ok THEN get_single(v.value.val)
       ELSE IF v.value.some /\ get_single(v.value.val).val # <<"B", "I", "N", "A", "R", "Y">>
            THEN Err(Msg("only BINARY value is allowed"))
       ELSE IF v.value.some /\ ~enc.value.some
            THEN Err(Msg("cannot have VALUE without ENCODING"))
       ELSE IF v.value.some /\ ~get_single(enc.value.val).ok THEN get_single(enc.value.val)
       ELSE IF v.value.some /\ get_single(enc.value.val).val # <<"B", "A", "S", "E", "6", "4">>
            THEN Err(Msg("only BASE64 encoding is allowed"))
       ELSE IF ~data.ok THEN data
       ELSE Ok([fmt_type |-> fmt_type.val.value, data |-> data.val])))))

\* The parameters parse_attendee takes, in its order, and whether each holds a
\* list.
AttendeeParams ==
    <<[key |-> <<"C", "U", "T", "Y", "P", "E">>, list |-> FALSE],
      [key |-> <<"M", "E", "M", "B", "E", "R">>, list |-> TRUE],
      [key |-> <<"R", "O", "L", "E">>, list |-> FALSE],
      [key |-> <<"P", "A", "R", "T", "S", "T", "A", "T">>, list |-> FALSE],
      [key |-> <<"R", "S", "V", "P">>, list |-> FALSE],
      [key |-> <<"D", "E", "L", "E", "G", "A", "T", "E", "D", "-", "T", "O">>, list |-> TRUE],
      [key |-> <<"D", "E", "L", "E", "G", "A", "T", "E", "D", "-", "F", "R", "O", "M">>, list |-> TRUE],
      [key |-> <<"S", "E", "N", "T", "-", "B", "Y">>, list |-> FALSE],
      [key |-> <<"C", "N">>, list |-> FALSE],
      [key |-> <<"D", "I", "R">>, list |-> FALSE],
      [key |-> <<"L", "A", "N", "G", "U", "A", "G", "E">>, list |-> FALSE]>>

\* parse_attendee from its k-th take_ty on: taken is the list of what the
\* earlier ones returned.
RECURSIVE AttendeeLoop(_, _, _)
AttendeeLoop(params, k, out) ==
    IF k > Len(AttendeeParams) THEN Ok(out)
    ELSE Bind(take_ty(params, Iana(AttendeeParams[k].key), AttendeeParams[k].list), LAMBDA t :
            IF ~t.ok THEN t
            ELSE AttendeeLoop(t.val.params, k + 1, Append(out, t.val.value)))

parse_attendee(line) == AttendeeLoop(line.params, 1, <<>>)

\* parse_categories
parse_categories(line) ==
    Bind(take_ty(line.params, Iana(<<"L", "A", "N", "G", "U", "A", "G", "E">>), FALSE), LAMBDA lang :
    Bind(TextTryFrom(line.value, line.owned), LAMBDA values :
       IF ~lang.ok THEN lang
       ELSE IF ~values.ok THEN values
       ELSE Ok([lang |-> lang.val.value, values |-> values.val])))

\* parse_exception_dates
parse_exception_dates(line) ==
    Bind(take_ty(line.params, Iana(<<"T", "Z", "I", "D">>), FALSE), LAMBDA timezone_id :
    Bind(parse_date_or_datetime_list([line EXCEPT !.params = timezone_id.val.params]), LAMBDA values :
       IF ~timezone_id.ok THEN timezone_id
       ELSE IF ~values.ok THEN values
       ELSE Ok([timezone_id |-> timezone_id.val.value, values |-> values.val])))


\* ------------------------------------------- parser/mod.rs: the builders

\* The error of a setter whose field is already set: the text is
\* "expected <expected> <label>, found at least 2".
AtLeast2(expected, label) ==
    [msg |-> "found at least 2", expected |-> expected, label |-> label]

\* impl_set_01 as it would be without its is_some check: the second value
\* replaces the first.
impl_set_01_overwrite(self, id, label, value) ==
    Ok([self EXCEPT ![id] = Some(value), !.assigned = Append(@, id)])

\* macro impl_set_01: the setter of the field id of a builder.  assigned is
\* the list of the fields assigned so far (history: the code keeps no such
\* record).
impl_set_01(self, id, label, value) ==
    IF self[id].some THEN Err(AtLeast2("0..=1", label))
    ELSE Ok([self EXCEPT ![id] = Some(value), !.assigned = Append(@, id)])

\* macro impl_set_1
impl_set_1(self, id, label, value) ==
    IF self[id].some THEN Err(AtLeast2("1", label))
    ELSE Ok([self EXCEPT ![id] = Some(value), !.assigned = Append(@, id)])

\* CalendarBuilder::new
CalendarBuilder_new ==
    [prod_id |-> None, version_set |-> FALSE, cal_scale |-> None,
     method |-> None, events |-> <<>>, assigned |-> <<>>]

\* CalendarBuilder::build
CalendarBuilder_build(self) ==
    IF ~self.prod_id.some THEN Err(Msg("PRODID not specified"))
    ELSE Ok([prod_id |-> self.prod_id.val,
             cal_scale |-> IF self.cal_scale.some THEN self.cal_scale.val
                           ELSE [variant |-> "Gregorian"],
             method |-> self.method,
             events |-> self.events,
             assigned |-> self.assigned])

\* CalendarBuilder::set_version
set_version(self) ==
    IF self.version_set THEN Err(AtLeast2("1", "VERSION")) ELSE Ok(self)

\* EventBuilder::default
EventBuilder_default ==
    [class |-> None, created |-> None, description |-> None, start |-> None,
     geo |-> None, last_modified |-> None, location |-> None,
     organizer |-> None, priority |-> None, timestamp |-> None,
     sequence |-> None, status |-> None, summary |-> None,
     time_transparency |-> None, uid |-> None, recurrence_id |-> None,
     end |-> None, attachments |-> <<>>, attendees |-> <<>>,
     categories |-> <<>>, comments |-> <<>>, contacts |-> <<>>,
     exception_dates |-> <<>>, assigned |-> <<>>]

\* EventBuilder::set_created
set_created(self, created) ==
    IF self.created.some THEN Err(AtLeast2("0..=1", "CREATED"))
    ELSE IF ~created.time.utc THEN Err(Msg("expected UTC time"))
    ELSE Ok([self EXCEPT !.created = Some(created),
                            !.assigned = Append(@, "created")])

\* EventBuilder::set_end
set_end(self, end) ==
    IF self.end.some THEN Err(AtLeast2("0..1 of", "DTEND | DURATION"))
    ELSE Ok([self EXCEPT !.end = Some(end), !.assigned = Append(@, "end")])

\* EventBuilder::build
EventBuilder_build(self) ==
    IF ~self.uid.some THEN Err(Msg("missing UID on VEVENT"))
    ELSE Ok([class |-> IF self.class.some THEN self.class.val
                       ELSE [variant |-> "Public"],
             created |-> self.created,
             description |-> self.description,
             start |-> self.start,
             geo_location |-> self.geo,
             last_modified |-> self.last_modified,
             location |-> self.location,
             organizer |-> self.organizer,
             priority |-> self.priority,
             timestamp |-> self.timestamp,
             sequence |-> self.sequence,
             status |-> self.status,
             summary |-> self.summary,
             time_transparency |-> IF self.time_transparency.some
                                   THEN self.time_transparency.val
                                   ELSE "Opaque",
             uid |-> self.uid.val,
             recurrence_id |-> self.recurrence_id,
             end |-> self.end,
             attachments |-> self.attachments,
             attendees |-> self.attendees,
             categories |-> self.categories,
             comments |-> self.comments,
             contacts |-> self.contacts,
             exception_dates |-> self.exception_dates,
             assigned |-> self.assigned])

\* --------------------------------------------- parser/lexer.rs: the Lexer

\* The parser's state as one record: the Lexer (input, cache), what
\* LineIter::next has returned (lines, iterDone), where the parse is (pc,
\* depth, ret), what it has built (calendars, builder, event), the error it
\* returned, and the lines take_next has handed out (taken: history).
ParserNew(t) ==
    [input |-> t, cache |-> <<>>, lines |-> <<>>, iterDone |-> FALSE,
     pc |-> "parse", calendars |-> <<>>, builder |-> CalendarBuilder_new,
     event |-> EventBuilder_default, depth |-> 0, ret |-> "calendar",
     error |-> None, taken |-> <<>>]

\* Lexer::ensure_cache.  When Line::parse fails the line is lost.
ensure_cache(s) ==
    IF s.cache # <<>> THEN [ok |-> TRUE, has |-> TRUE, s |-> s]
    ELSE Bind(LineIterNext(s.input), LAMBDA n :
         Bind(n.item.val, LAMBDA item :
         Bind(LineParse(item.line, item.owned), LAMBDA p :
         Bind([s EXCEPT !.input = n.input, !.lines = Append(@, item)], LAMBDA s1 :
            IF ~n.item.some
            THEN [ok |-> TRUE, has |-> FALSE, s |-> [s EXCEPT !.iterDone = TRUE]]
            ELSE IF ~p.ok THEN [ok |-> FALSE, has |-> FALSE, err |-> p.err, s |-> s1]
            ELSE [ok |-> TRUE, has |-> TRUE,
                  s |-> [s1 EXCEPT !.cache =
                            Append(@, [name |-> p.val.name, params |-> p.val.params,
                                       value |-> p.val.value, owned |-> item.owned,
                                       src |-> item.line])]]))))

\* Lexer::take_next
take_next(s) ==
    Bind(ensure_cache(s), LAMBDA e :
       IF ~e.ok THEN [ok |-> FALSE, err |-> e.err, s |-> e.s]
       ELSE IF ~e.has THEN [ok |-> TRUE, line |-> None, s |-> e.s]
       ELSE [ok |-> TRUE, line |-> Some(Head(e.s.cache)),
             s |-> [e.s EXCEPT !.cache = Tail(@),
                               !.taken = Append(@, Head(e.s.cache))]])

\* Lexer::next: the line at the front of the cache, which stays there.
Lexer_next(s) ==
    Bind(ensure_cache(s), LAMBDA e :
       IF ~e.ok THEN [ok |-> FALSE, err |-> e.err, s |-> e.s]
       ELSE IF ~e.has THEN [ok |-> TRUE, line |-> None, s |-> e.s]
       ELSE [ok |-> TRUE, line |-> Some(Head(e.s.cache)), s |-> e.s])

\* Lexer::step as it would be if it skipped a line of the input after
\* dropping a cached one as well.
Lexer_step_both(s) ==
    Bind(LineIterNext(s.input), LAMBDA n :
       IF ~n.item.some THEN [s EXCEPT !.cache = <<>>, !.iterDone = TRUE]
       ELSE [s EXCEPT !.cache = <<>>,
                      !.input = n.input,
                      !.lines = Append(@, n.item.val),
                      !.taken = @ \o s.cache])

\* Lexer::step: the cached line is dropped, or else a line of the input is
\* skipped unparsed.  The line that is dropped is added to s.taken, a skipped
\* one by its text only.
Lexer_step(s) ==
    IF s.cache # <<>>
    THEN [s EXCEPT !.cache = Tail(@), !.taken = Append(@, Head(s.cache))]
    ELSE Bind(LineIterNext(s.input), LAMBDA n :
            IF ~n.item.some THEN [s EXCEPT !.iterDone = TRUE]
            ELSE [s EXCEPT !.input = n.input,
                           !.lines = Append(@, n.item.val),
                           !.taken = Append(@, [src |-> n.item.val.line])])

\* A ? or bail! of the parse: it returns the error.
Fail(s, err) == [s EXCEPT !.pc = "failed", !.error = Some(err)]

\* One turn of the loop of Lexer::skip_current.  s.depth is its depth, s.ret
\* the caller it returns to.
skip_current(s) ==
    Bind(take_next(s), LAMBDA t :
    Bind(t.line.val, LAMBDA line :
    Bind(IF NameEq(line.name, <<"B", "E", "G", "I", "N">>) THEN s.depth + 1
         ELSE IF NameEq(line.name, <<"E", "N", "D">>) THEN s.depth - 1
         ELSE s.depth, LAMBDA level :
       IF ~t.ok THEN Fail(t.s, t.err)
       ELSE IF ~t.line.some THEN Fail(t.s, Msg("unexpected EOF"))
       ELSE IF level = 0 THEN [t.s EXCEPT !.depth = 0, !.pc = s.ret]
       ELSE [t.s EXCEPT !.depth = level])))

\* ------------------------- parser/mod.rs: Calendar::parse and Event::parse

\* parse(..)?.1: the value of a parser's result, without the rest.
Snd(r) == IF r.ok THEN Ok(r.val.val) ELSE r

\* What a branch of the loops does with its line: hand a value to a setter,
\* or push one onto a list.
Set(setter, id, label, value) ==
    [kind |-> "set", setter |-> setter, id |-> id, label |-> label, value |-> value]

Push(id, value) == [kind |-> "push", id |-> id, value |-> value]

\* The branch of the loop of Calendar::parse that a line takes.
CalendarBranch(next) ==
    IF NameEq(next.name, <<"E", "N", "D">>) THEN [kind |-> "end"]
    ELSE IF NameEq(next.name, <<"P", "R", "O", "D", "I", "D">>)
         THEN Set("set_01", "prod_id", "PRODID", parse_prodid(next))
    ELSE IF NameEq(next.name, <<"V", "E", "R", "S", "I", "O", "N">>)
         THEN Set("set_version", "version_set", "VERSION", parse_version(next))
    ELSE IF NameEq(next.name, <<"C", "A", "L", "S", "C", "A", "L", "E">>)
         THEN Set("set_01", "cal_scale", "CALSCALE", parse_cal_scale(next))
    ELSE IF NameEq(next.name, <<"M", "E", "T", "H", "O", "D">>)
         THEN Set("set_01", "method", "METHOD",
                  Bind(check_iana_token(next.value), LAMBDA token :
                          IF token.ok THEN Ok(next.value) ELSE token))
    ELSE IF NameEq(next.name, <<"B", "E", "G", "I", "N">>) THEN [kind |-> "begin"]
    ELSE [kind |-> "ignore"]

\* The branch of the loop of Event::parse that a line takes.
EventBranch(next) ==
    IF NameEq(next.name, <<"E", "N", "D">>) THEN [kind |-> "end"]
    ELSE IF NameEq(next.name, <<"C", "L", "A", "S", "S">>)
         THEN Set("set_01", "class", "CLASS", parse_class(next.value, next.owned))
    ELSE IF NameEq(next.name, <<"C", "R", "E", "A", "T", "E", "D">>)
         THEN Set("set_created", "created", "CREATED", Snd(DateTimeParse(next.value)))
    ELSE IF NameEq(next.name, <<"D", "E", "S", "C", "R", "I", "P", "T", "I", "O", "N">>)
         THEN Set("set_01", "description", "DESCRIPTION", parse_annotated_text(next))
    ELSE IF NameEq(next.name, <<"D", "T", "S", "T", "A", "R", "T">>)
         THEN Set("set_01", "start", "START", Snd(DateOrDateTimeParse(next.value)))
    ELSE IF NameEq(next.name, <<"G", "E", "O">>)
         THEN Set("set_01", "geo", "GEO", GeoLocationFromStr(next.value))
    ELSE IF NameEq(next.name, <<"L", "A", "S", "T", "-", "M", "O", "D", "I", "F", "I", "E", "D">>)
         THEN Set("set_01", "last_modified", "LAST-MODIFIED",
                  Snd(DateTimeParse(next.value)))
    ELSE IF NameEq(next.name, <<"L", "O", "C", "A", "T", "I", "O", "N">>)
         THEN Set("set_01", "location", "LOCATION", parse_annotated_text(next))
    ELSE IF NameEq(next.name, <<"O", "R", "G", "A", "N", "I", "Z", "E", "R">>)
         THEN Set("set_01", "organizer", "ORGANIZER", parse_organizer(next))
    ELSE IF NameEq(next.name, <<"P", "R", "I", "O", "R", "I", "T", "Y">>)
         THEN Set("set_01", "priority", "PRIORITY", PriorityFromStr(next.value))
    ELSE IF NameEq(next.name, <<"D", "T", "S", "T", "A", "M", "P">>)
         THEN Set("set_01", "timestamp", "DTSTAMP", Snd(DateTimeParse(next.value)))
    ELSE IF NameEq(next.name, <<"S", "E", "Q">>)
         THEN Set("set_01", "sequence", "SEQ", parse_u64(next.value))
    ELSE IF NameEq(next.name, <<"S", "T", "A", "T", "U", "S">>)
         THEN Set("set_01", "status", "STATUS", parse_event_status(next))
    ELSE IF NameEq(next.name, <<"S", "U", "M", "M", "A", "R", "Y">>)
         THEN Set("set_01", "summary", "SUMMARY", parse_annotated_text(next))
    ELSE IF NameEq(next.name, <<"T", "R", "A", "N", "S", "P">>)
         THEN Set("set_01", "time_transparency", "TRANSP",
                  parse_time_transparency(next))
    ELSE IF NameEq(next.name, <<"U", "I", "D">>)
         THEN Set("set_1", "uid", "UID", Ok(next.value))
    ELSE IF NameEq(next.name, <<"R", "E", "C", "U", "R", "R", "E", "N", "C", "E", "-", "I", "D">>)
         THEN Set("set_01", "recurrence_id", "RECURRENCE-ID",
                  parse_recurrence_id(next))
    ELSE IF NameEq(next.name, <<"D", "T", "E", "N", "D">>)
         THEN Set("set_end", "end", "DTEND | DURATION", parse_datetime_end(next))
    ELSE IF NameEq(next.name, <<"D", "U", "R", "A", "T", "I", "O", "N">>)
         THEN Set("set_end", "end", "DTEND | DURATION", parse_duration_end(next))
    ELSE IF NameEq(next.name, <<"A", "T", "T", "A", "C", "H", "M", "E", "N", "T">>)
         THEN Push("attachments", parse_attachment(next))
    ELSE IF NameEq(next.name, <<"A", "T", "T", "E", "N", "D", "E", "E">>)
         THEN Push("attendees", parse_attendee(next))
    ELSE IF NameEq(next.name, <<"C", "A", "T", "E", "G", "O", "R", "I", "E", "S">>)
         THEN Push("categories", parse_categories(next))
    ELSE IF NameEq(next.name, <<"C", "O", "M", "M", "E", "N", "T">>)
         THEN Push("comments", parse_comment(next))
    ELSE IF NameEq(next.name, <<"C", "O", "N", "T", "A", "C", "T">>)
         THEN Push("contacts", parse_comment(next))
    ELSE IF NameEq(next.name, <<"E", "X", "D", "A", "T", "E">>)
         THEN Push("exception_dates", parse_exception_dates(next))
    ELSE IF NameEq(next.name, <<"B", "E", "G", "I", "N">>) THEN [kind |-> "begin"]
    ELSE [kind |-> "ignore"]

\* builder.set_x(value): the call of the setter that a branch names.
CallSetter(self, d) ==
    IF d.setter = "set_01" THEN impl_set_01(self, d.id, d.label, d.value.val)
    ELSE IF d.setter = "set_1" THEN impl_set_1(self, d.id, d.label, d.value.val)
    ELSE IF d.setter = "set_created" THEN set_created(self, d.value.val)
    ELSE IF d.setter = "set_end" THEN set_end(self, d.value.val)
    ELSE set_version(self)

\* lib.rs parse: the test of its while loop, !parser.is_empty()?
\* (Lexer::is_empty, Lexer::next), and its return.
parse_is_empty(s) ==
    Bind(ensure_cache(s), LAMBDA e :
       IF ~e.ok THEN Fail(e.s, e.err)
       ELSE IF ~e.has THEN [e.s EXCEPT !.pc = "done"]
       ELSE [e.s EXCEPT !.pc = "begin"])

\* Calendar::parse up to its loop: the BEGIN line.
Calendar_parse_begin(s) ==
    Bind(take_next(s), LAMBDA t :
    Bind(t.line.val, LAMBDA begin :
       IF ~t.ok THEN Fail(t.s, t.err)
       ELSE IF ~t.line.some THEN Fail(t.s, Msg("empty iterator"))
       ELSE IF ~(NameEq(begin.name, <<"B", "E", "G", "I", "N">>) /\ begin.value = <<"V", "C", "A", "L", "E", "N", "D", "A", "R">>)
            THEN Fail(t.s, Msg("expected BEGIN:VCALENDAR"))
       ELSE [t.s EXCEPT !.builder = CalendarBuilder_new, !.pc = "calendar"]))

\* One turn of the loop of Calendar::parse, with the push of its result in
\* lib.rs parse when it returns one.
Calendar_parse(s) ==
    Bind(take_next(s), LAMBDA t :
    Bind(t.line.val, LAMBDA next :
    Bind(CalendarBranch(next), LAMBDA d :
    Bind(CalendarBuilder_build(t.s.builder), LAMBDA built :
    Bind(CallSetter(t.s.builder, d), LAMBDA set :
       IF ~t.ok THEN Fail(t.s, t.err)
       ELSE IF ~t.line.some THEN Fail(t.s, Msg("unexpected EOF"))
       ELSE IF d.kind = "end"
            THEN IF next.value # <<"V", "C", "A", "L", "E", "N", "D", "A", "R">>
                 THEN Fail(t.s, [msg |-> "expected VCALENDAR", unexpected |-> next.value])
                 ELSE IF ~built.ok THEN Fail(t.s, built.err)
                 ELSE [t.s EXCEPT !.calendars = Append(@, built.val),
                                  !.builder = CalendarBuilder_new,
                                  !.pc = "parse"]
       ELSE IF d.kind = "set"
            THEN IF ~d.value.ok THEN Fail(t.s, d.value.err)
                 ELSE IF ~set.ok THEN Fail(t.s, set.err)
                 ELSE [t.s EXCEPT !.builder = set.val]
       ELSE IF d.kind = "begin"
            THEN IF next.value = <<"V", "E", "V", "E", "N", "T">>
                 THEN [t.s EXCEPT !.event = EventBuilder_default, !.pc = "event"]
                 ELSE [t.s EXCEPT !.depth = 1, !.ret = "calendar", !.pc = "skip"]
       ELSE t.s)))))

\* One turn of the loop of Event::parse, with the push of its result in
\* Calendar::parse when it returns one.
Event_parse(s) ==
    Bind(take_next(s), LAMBDA t :
    Bind(t.line.val, LAMBDA next :
    Bind(EventBranch(next), LAMBDA d :
    Bind(EventBuilder_build(t.s.event), LAMBDA built :
    Bind(CallSetter(t.s.event, d), LAMBDA set :
       IF ~t.ok THEN Fail(t.s, t.err)
       ELSE IF ~t.line.some THEN Fail(t.s, Msg("unexpected EOF"))
       ELSE IF d.kind = "end"
            THEN IF next.value # <<"V", "E", "V", "E", "N", "T">>
                 THEN Fail(t.s, [msg |-> "expected VEVENT", unexpected |-> next.value])
                 ELSE IF ~built.ok THEN Fail(t.s, built.err)
                 ELSE [t.s EXCEPT !.builder.events = Append(@, built.val),
                                  !.event = EventBuilder_default,
                                  !.pc = "calendar"]
       ELSE IF d.kind = "set"
            THEN IF ~d.value.ok THEN Fail(t.s, d.value.err)
                 ELSE IF ~set.ok THEN Fail(t.s, set.err)
                 ELSE [t.s EXCEPT !.event = set.val]
       ELSE IF d.kind = "push"
            THEN IF ~d.value.ok THEN Fail(t.s, d.value.err)
                 ELSE [t.s EXCEPT !.event[d.id] = Append(@, d.value.val)]
       ELSE IF d.kind = "begin"
            THEN [t.s EXCEPT !.depth = 1, !.ret = "event", !.pc = "skip"]
       ELSE t.s)))))

\* The step the parse takes next.
ParseStep(s) ==
    IF s.pc = "parse" THEN parse_is_empty(s)
    ELSE IF s.pc = "begin" THEN Calendar_parse_begin(s)
    ELSE IF s.pc = "calendar" THEN Calendar_parse(s)
    ELSE IF s.pc = "event" THEN Event_parse(s)
    ELSE skip_current(s)

\* lib.rs parse, run to its return.
RECURSIVE RunParse(_)
RunParse(s) ==
    IF s.pc \in {"done", "failed"} THEN s ELSE RunParse(ParseStep(s))

\* The parser before parse is called: what SpecUnfold and SpecLine, which
\* run the unfolder and the line splitter on their own, leave untouched.
ParserIdle ==
    /\ cache = <<>>
    /\ pc = "parse"
    /\ calendars = <<>>
    /\ builder = CalendarBuilder_new
    /\ event = EventBuilder_default
    /\ depth = 0
    /\ ret = "calendar"
    /\ error = None
    /\ taken = <<>>
    /\ stripped = <<>>

\* ------------------------------------------------ the unfolder on its own

\* The longest text the unfolder is run on.
MaxText == 6

UnfoldChars == {"a", SP, CR, LF}

\* The inputs of tests::single_line, two_lines, single_line_with_newline,
\* continue_line and mult_continue_line.
UnfoldTests ==
    {<<"S", "I", "M", "P", "L", "E", ":", "A", " ", "s", "i", "m", "p", "l", "e", " ", "l", "i", "n", "e">>,
     <<"T", "w", "o", "\r", "\n", "l", "i", "n", "e", "s">>,
     <<"S", "i", "n", "g", "l", "e", "\n", "l", "i", "n", "e">>,
     <<"L", "i", "n", "e", " ", "w", "i", "t", "h", "\r", "\n", " ", " ", "c", "o", "n", "t", "i", "n", "u", "a", "t", "i", "o", "n">>,
     <<"F", "i", "r", "s", "t", " ", "l", "i", "n", "e", "\r", "\n", " ", " ", "w", "i", "t", "h", " ", "c", "o", "n", "t", "i", "n", "u", "a", "t", "i", "o", "n", "\r", "\n", "S", "e", "c", "o", "n", "d", " ", "l", "i", "n", "e", " ", "\r", "\n", "T", "h", "i", "r", "d", " ", "l", "i", "n", "e", " ", "w", "i", "\r", "\n", " ", "t", "h", " ", "c", "o", "n", "t", "i", "n", "u", "a", "t", "i", "o", "n">>}

UnfoldInit ==
    /\ text \in SeqUpTo(UnfoldChars, MaxText) \cup UnfoldTests
    /\ input = text
    /\ lines = <<>>
    /\ iterDone = FALSE
    /\ raw = <<>>
    /\ rawOwned = FALSE
    /\ parsed = None
    /\ ParserIdle

\* One call of LineIter::next that returns Some(line).
UnfoldYield ==
    /\ LineIterNext(input).item.some
    /\ lines' = Append(lines, LineIterNext(input).item.val)
    /\ input' = LineIterNext(input).input
    /\ UNCHANGED <<text, iterDone, raw, rawOwned, parsed, parserVars>>

\* One call of LineIter::next that returns None.
UnfoldEnd ==
    /\ ~LineIterNext(input).item.some
    /\ iterDone' = TRUE
    /\ input' = LineIterNext(input).input
    /\ UNCHANGED <<text, lines, raw, rawOwned, parsed, parserVars>>

UnfoldNext == UnfoldYield \/ UnfoldEnd

SpecUnfold == UnfoldInit /\ [][UnfoldNext]_vars

\* ------------------------------------------- the line splitter on its own

\* The longest parameter section of the enumerated lines.
MaxSection == 5

SectionChars == {"a", "=", ",", ";", DQUOTE, ":"}

\* tests::parse_line and tests::parse_xtension_no_vendor
ParseLineInput == <<"p", "a", "r", "a", "m", "-", "n", "a", "m", "e", ";", "v", "a", "l", "1", "=", "a", ",", "b", ";", "X", "-", "a", "a", "a", "-", "v", "a", "l", "2", "=", "\"", "c", "\"", ",", "d", "-", "d", ":", "a", "c", "t", "u", "a", "l", " ", "v", "a", "l", "u", "e">>

XtensionNoVendorInput == <<"X", "-", "p", "a", "r", "a", "m", "-", "n", "a", "m", "e", ":", "a", "c", "t", "u", "a", "l", " ", "v", "a", "l", "u", "e">>

\* The lines the splitter is run on: the two test lines, and every line
\* "n;" + section + ":v" or "n;" + section for the sections over SectionChars.
LineInputs ==
    {ParseLineInput, XtensionNoVendorInput}
        \cup {<<"n", ";">> \o sec \o end :
                  sec \in SeqUpTo(SectionChars, MaxSection), end \in {<<>>, <<":", "v">>}}

LineInit ==
    /\ raw \in LineInputs
    /\ rawOwned \in BOOLEAN
    /\ parsed = None
    /\ text = <<>>
    /\ input = <<>>
    /\ lines = <<>>
    /\ iterDone = FALSE
    /\ ParserIdle

\* One call of Line::parse.
ParseLine ==
    /\ ~parsed.some
    /\ parsed' = Some(LineParse(raw, rawOwned))
    /\ UNCHANGED <<raw, rawOwned, text, input, lines, iterDone, parserVars>>

LineNext == ParseLine

SpecLine == LineInit /\ [][LineNext]_vars

\* ------------------------------------------------- Name::parse on its own

\* The longest name, after its "X-" if it has one, that Name::parse is run on.
MaxName == 5

NameChars == {"a", "1", "-", "X", "_", NonAsciiLetter, "\t"}

\* The names Name::parse is run on: those of the tests of line.rs, and every
\* text over NameChars, alone and after "X-".
NameInputs ==
    {<<"p", "a", "r", "a", "m", "-", "n", "a", "m", "e">>, <<"X", "-", "p", "a", "r", "a", "m", "-", "n", "a", "m", "e">>, <<"X", "-", "a", "a", "a", "-", "v", "a", "l", "2">>}
        \cup {prefix \o body : prefix \in {<<>>, <<"X", "-">>}, body \in SeqUpTo(NameChars, MaxName)}

NameInit ==
    /\ raw \in NameInputs
    /\ rawOwned \in BOOLEAN
    /\ parsed = None
    /\ text = <<>>
    /\ input = <<>>
    /\ lines = <<>>
    /\ iterDone = FALSE
    /\ ParserIdle

\* One call of Name::parse.
ParseName ==
    /\ ~parsed.some
    /\ parsed' = Some(NameParse(raw, rawOwned))
    /\ UNCHANGED <<raw, rawOwned, text, input, lines, iterDone, parserVars>>

NameNext == ParseName

SpecName == NameInit /\ [][NameNext]_vars

\* ------------------------------------ one property line through the dispatch

\* What Calendar::parse and Event::parse do with one line that Line::parse
\* accepts: the line as the Lexer caches it, the test that Calendar::parse
\* makes of its first line, the branch each loop takes with the line and the
\* value it parses, and the change of depth in Lexer::skip_current.
Dispatch(line, owned) ==
    Bind(LineParse(line, owned), LAMBDA p :
       IF ~p.ok THEN p
       ELSE Bind([name |-> p.val.name, params |-> p.val.params, value |-> p.val.value,
                  owned |-> owned, src |-> line], LAMBDA next :
               Ok([line |-> next,
                   begin |-> NameEq(next.name, <<"B", "E", "G", "I", "N">>) /\ next.value = <<"V", "C", "A", "L", "E", "N", "D", "A", "R">>,
                   calendar |-> CalendarBranch(next),
                   event |-> EventBranch(next),
                   skip |-> IF NameEq(next.name, <<"B", "E", "G", "I", "N">>) THEN 1
                            ELSE IF NameEq(next.name, <<"E", "N", "D">>) THEN -1 ELSE 0])))

\* The keywords that Calendar::parse and Event::parse compare names with,
\* each with the rest of a line that its branch accepts.
KeywordLines ==
    {<<<<"B", "E", "G", "I", "N">>, <<":", "V", "C", "A", "L", "E", "N", "D", "A", "R">>>>, <<<<"E", "N", "D">>, <<":", "V", "C", "A", "L", "E", "N", "D", "A", "R">>>>, <<<<"P", "R", "O", "D", "I", "D">>, <<":", "p">>>>,
     <<<<"V", "E", "R", "S", "I", "O", "N">>, <<":", "2", ".", "0">>>>, <<<<"C", "A", "L", "S", "C", "A", "L", "E">>, <<":", "G", "R", "E", "G", "O", "R", "I", "A", "N">>>>, <<<<"M", "E", "T", "H", "O", "D">>, <<":", "m">>>>,
     <<<<"C", "L", "A", "S", "S">>, <<":", "P", "U", "B", "L", "I", "C">>>>, <<<<"C", "R", "E", "A", "T", "E", "D">>, <<":", "2", "0", "2", "4", "0", "1", "0", "1", "T", "0", "0", "0", "0", "0", "0", "Z">>>>,
     <<<<"D", "E", "S", "C", "R", "I", "P", "T", "I", "O", "N">>, <<":", "d">>>>, <<<<"D", "T", "S", "T", "A", "R", "T">>, <<":", "2", "0", "2", "4", "0", "1", "0", "1">>>>, <<<<"G", "E", "O">>, <<":", "1", ".", "5", ";", "2", ".", "5">>>>,
     <<<<"L", "A", "S", "T", "-", "M", "O", "D", "I", "F", "I", "E", "D">>, <<":", "2", "0", "2", "4", "0", "1", "0", "1", "T", "0", "0", "0", "0", "0", "0", "Z">>>>, <<<<"L", "O", "C", "A", "T", "I", "O", "N">>, <<":", "l">>>>,
     <<<<"O", "R", "G", "A", "N", "I", "Z", "E", "R">>, <<":", "m", "a", "i", "l", "t", "o", ":", "a">>>>, <<<<"P", "R", "I", "O", "R", "I", "T", "Y">>, <<":", "1">>>>,
     <<<<"D", "T", "S", "T", "A", "M", "P">>, <<":", "2", "0", "2", "4", "0", "1", "0", "1", "T", "0", "0", "0", "0", "0", "0", "Z">>>>, <<<<"S", "E", "Q">>, <<":", "1">>>>,
     <<<<"S", "T", "A", "T", "U", "S">>, <<":", "C", "O", "N", "F", "I", "R", "M", "E", "D">>>>, <<<<"S", "U", "M", "M", "A", "R", "Y">>, <<":", "s">>>>, <<<<"T", "R", "A", "N", "S", "P">>, <<":", "O", "P", "A", "Q", "U", "E">>>>,
     <<<<"U", "I", "D">>, <<":", "u">>>>, <<<<"R", "E", "C", "U", "R", "R", "E", "N", "C", "E", "-", "I", "D">>, <<":", "2", "0", "2", "4", "0", "1", "0", "1", "T", "0", "0", "0", "0", "0", "0">>>>,
     <<<<"D", "T", "E", "N", "D">>, <<":", "2", "0", "2", "4", "0", "1", "0", "1", "T", "0", "0", "0", "0", "0", "0">>>>, <<<<"D", "U", "R", "A", "T", "I", "O", "N">>, <<":", "P", "1", "D">>>>,
     <<<<"A", "T", "T", "A", "C", "H", "M", "E", "N", "T">>, <<":", "h", "t", "t", "p", ":", "/", "/", "a">>>>, <<<<"A", "T", "T", "E", "N", "D", "E", "E">>, <<":", "m", "a", "i", "l", "t", "o", ":", "a">>>>,
     <<<<"C", "A", "T", "E", "G", "O", "R", "I", "E", "S">>, <<":", "c">>>>, <<<<"C", "O", "M", "M", "E", "N", "T">>, <<":", "c">>>>, <<<<"C", "O", "N", "T", "A", "C", "T">>, <<":", "c">>>>,
     <<<<"E", "X", "D", "A", "T", "E">>, <<":", "2", "0", "2", "4", "0", "1", "0", "1", "T", "0", "0", "0", "0", "0", "0">>>>}

UpperLetters == <<"A", "B", "C", "D", "E", "F", "G", "H", "I", "J", "K", "L", "M", "N", "O", "P", "Q", "R", "S", "T", "U", "V", "W", "X", "Y", "Z">>

LowerLetters == <<"a", "b", "c", "d", "e", "f", "g", "h", "i", "j", "k", "l", "m", "n", "o", "p", "q", "r", "s", "t", "u", "v", "w", "x", "y", "z">>

\* s with its letters from the k-th character on in lower case.
LowerFrom(s, k) ==
    [i \in 1..Len(s) |->
        IF i >= k /\ s[i] \in Upper
        THEN LowerLetters[CHOOSE j \in 1..26 : UpperLetters[j] = s[i]]
        ELSE s[i]]

\* The most parameters of an enumerated line.
MaxParams == 2

\* The parameters the lines are written with: VALUE and ENCODING with one
\* value and with two, and others.
ParamTexts ==
    {<<"V", "A", "L", "U", "E", "=", "D", "A", "T", "E">>, <<"V", "A", "L", "U", "E", "=", "D", "A", "T", "E", "-", "T", "I", "M", "E">>, <<"V", "A", "L", "U", "E", "=", "D", "A", "T", "E", ",", "D", "A", "T", "E">>, <<"V", "A", "L", "U", "E", "=", "D", "A", "T", "E", "-", "T", "I", "M", "E", ",", "D", "A", "T", "E", "-", "T", "I", "M", "E">>,
     <<"V", "A", "L", "U", "E", "=", "B", "I", "N", "A", "R", "Y">>, <<"V", "A", "L", "U", "E", "=", "B", "I", "N", "A", "R", "Y", ",", "B", "I", "N", "A", "R", "Y">>, <<"E", "N", "C", "O", "D", "I", "N", "G", "=", "B", "A", "S", "E", "6", "4">>,
     <<"E", "N", "C", "O", "D", "I", "N", "G", "=", "B", "A", "S", "E", "6", "4", ",", "B", "A", "S", "E", "6", "4">>, <<"X", "-", "a", "=", "b", ",", "c">>}

\* The names and values of the lines with parameters.
ParamLineNames == {<<"D", "T", "E", "N", "D">>, <<"R", "E", "C", "U", "R", "R", "E", "N", "C", "E", "-", "I", "D">>, <<"E", "X", "D", "A", "T", "E">>, <<"A", "T", "T", "A", "C", "H", "M", "E", "N", "T">>, <<"D", "T", "S", "T", "A", "R", "T">>}

ParamLineValues == {<<"2", "0", "2", "4", "0", "1", "0", "1">>, <<"2", "0", "2", "4", "0", "1", "0", "1", "T", "0", "0", "0", "0", "0", "0">>, <<"A", "A", "A", "A">>, <<"h", "t", "t", "p", ":", "/", "/", "a">>}

RECURSIVE JoinParams(_)
JoinParams(ps) == IF ps = <<>> THEN <<>> ELSE <<";">> \o Head(ps) \o JoinParams(Tail(ps))

\* The lines the dispatch is run on: every keyword in upper case, in lower
\* case and capitalised, and the lines with up to MaxParams parameters.
PropertyInputs ==
    {LowerFrom(k[1], from) \o k[2] : k \in KeywordLines, from \in {1, 2, 99}}
        \cup {n \o JoinParams(ps) \o <<":">> \o v :
                  n \in ParamLineNames, ps \in SeqUpTo(ParamTexts, MaxParams),
                  v \in ParamLineValues}

PropertyInit ==
    /\ raw \in PropertyInputs
    /\ rawOwned \in BOOLEAN
    /\ parsed = None
    /\ text = <<>>
    /\ input = <<>>
    /\ lines = <<>>
    /\ iterDone = FALSE
    /\ ParserIdle

\* One line through Line::parse and the dispatch.
ParseProperty ==
    /\ ~parsed.some
    /\ parsed' = Some(Dispatch(raw, rawOwned))
    /\ UNCHANGED <<raw, rawOwned, text, input, lines, iterDone, parserVars>>

PropertyNext == ParseProperty

SpecProperty == PropertyInit /\ [][PropertyNext]_vars

\* ------------------------------------------------------ the whole parser

\* The text of a document given as its lines, each with its terminator.
RECURSIVE Join(_)
Join(doc) == IF doc = <<>> THEN <<>> ELSE Head(doc) \o <<CR, LF>> \o Join(Tail(doc))

\* doc with the lines of chunk put after its k-th line.
InsertAfter(doc, k, chunk) == SubSeq(doc, 1, k) \o chunk \o SubSeq(doc, k + 1, Len(doc))

\* The longest text of blanks, the most lines of a document made of
\* structural lines, and the most calendar blocks of one buffer.
MaxBlank == 3

MaxDocLines == 3

MaxCalendars == 2

BlankChars == {SP, CR, LF}

BeginCalendar == <<"B", "E", "G", "I", "N", ":", "V", "C", "A", "L", "E", "N", "D", "A", "R">>

EndCalendar == <<"E", "N", "D", ":", "V", "C", "A", "L", "E", "N", "D", "A", "R">>

BeginEvent == <<"B", "E", "G", "I", "N", ":", "V", "E", "V", "E", "N", "T">>

EndEvent == <<"E", "N", "D", ":", "V", "E", "V", "E", "N", "T">>

\* The document of the crate's description of a minimal calendar, the same
\* with its PRODID folded and without its last terminator, and documents
\* with a line that is no content line.
MinimalDoc == <<"B", "E", "G", "I", "N", ":", "V", "C", "A", "L", "E", "N", "D", "A", "R", "\r", "\n", "P", "R", "O", "D", "I", "D", ":", "-", "/", "/", "t", "e", "s", "t", "/", "/", "\r", "\n", "V", "E", "R", "S", "I", "O", "N", ":", "2", ".", "0", "\r", "\n", "E", "N", "D", ":", "V", "C", "A", "L", "E", "N", "D", "A", "R", "\r", "\n">>

FixedTexts ==
    {MinimalDoc,
     <<"B", "E", "G", "I", "N", ":", "V", "C", "A", "L", "E", "N", "D", "A", "R", "\r", "\n", "P", "R", "O", "D", "I", "D", ":", "-", "/", "/", "t", "e", "\r", "\n", " ", "s", "t", "/", "/", "\r", "\n", "V", "E", "R", "S", "I", "O", "N", ":", "2", ".", "0", "\r", "\n", "E", "N", "D", ":", "V", "C", "A", "L", "E", "N", "D", "A", "R">>,
     <<"B", "E", "G", "I", "N", ":", "V", "C", "A", "L", "E", "N", "D", "A", "R", "\r", "\n", "P", "R", "O", "D", "I", "D", ":", "p", "\r", "\n", "n", "o", " ", "c", "o", "l", "o", "n", "\r", "\n", "E", "N", "D", ":", "V", "C", "A", "L", "E", "N", "D", "A", "R", "\r", "\n">>,
     <<"B", "E", "G", "I", "N", ":", "V", "C", "A", "L", "E", "N", "D", "A", "R", "\r", "\n", "P", "R", "O", "D", "I", "D", ":", "p", "\r", "\n", "B", "E", "G", "I", "N", ":", "V", "T", "O", "D", "O", "\r", "\n", "?", ":", "1", "\r", "\n", "E", "N", "D", ":", "V", "T", "O", "D", "O", "\r", "\n", "E", "N", "D", ":", "V", "C", "A", "L", "E", "N", "D", "A", "R", "\r", "\n">>,
     <<"B", "E", "G", "I", "N", ":", "V", "C", "A", "L", "E", "N", "D", "A", "R", "\r", "\n", "\r", "\n", "P", "R", "O", "D", "I", "D", ":", "p", "\r", "\n", "E", "N", "D", ":", "V", "C", "A", "L", "E", "N", "D", "A", "R", "\r", "\n">>}

\* The lines that open and close blocks and set the required fields, as they
\* are and with the prefix of an extension name.
StructLines ==
    {BeginCalendar, EndCalendar, BeginEvent, EndEvent, <<"P", "R", "O", "D", "I", "D", ":", "p">>, <<"U", "I", "D", ":", "u">>,
     <<"X", "-", "B", "E", "G", "I", "N", ":", "V", "C", "A", "L", "E", "N", "D", "A", "R">>, <<"X", "-", "E", "N", "D", ":", "V", "C", "A", "L", "E", "N", "D", "A", "R">>, <<"X", "-", "P", "R", "O", "D", "I", "D", ":", "p">>}

\* Lines and blocks that no branch of the assemblers is written for.
Extras ==
    {<<<<"F", "O", "O", ":", "1">>>>,
     <<<<"X", "-", "F", "O", "O", ";", "a", "=", "b", ":", "1">>>>,
     <<<<"X", "-", "a", "b", "c", "-", "U", "I", "D", ":", "x">>>>,
     <<<<"X", "-", "P", "R", "O", "D", "I", "D", ":", "x">>>>,
     <<<<"X", "-", "U", "I", "D", ":", "x">>>>,
     <<<<"B", "E", "G", "I", "N", ":", "V", "T", "O", "D", "O">>, <<"E", "N", "D", ":", "V", "T", "O", "D", "O">>>>,
     <<<<"B", "E", "G", "I", "N", ":", "V", "T", "O", "D", "O">>, <<"U", "I", "D", ":", "t">>, <<"B", "E", "G", "I", "N", ":", "V", "A", "L", "A", "R", "M">>, <<"P", "R", "O", "D", "I", "D", ":", "a">>, <<"E", "N", "D", ":", "V", "A", "L", "A", "R", "M">>,
       <<"E", "N", "D", ":", "V", "T", "O", "D", "O">>>>,
     <<<<"B", "E", "G", "I", "N", ":", "V", "T", "O", "D", "O">>, <<"X", "-", "E", "N", "D", ":", "V", "T", "O", "D", "O">>, <<"P", "R", "O", "D", "I", "D", ":", "q">>, <<"E", "N", "D", ":", "V", "T", "O", "D", "O">>>>}

\* A calendar with one event, into which the extras are put.
BaseDoc ==
    <<BeginCalendar, <<"P", "R", "O", "D", "I", "D", ":", "p", "1">>, <<"V", "E", "R", "S", "I", "O", "N", ":", "2", ".", "0">>, BeginEvent, <<"U", "I", "D", ":", "u", "1">>,
      <<"S", "U", "M", "M", "A", "R", "Y", ":", "s">>, EndEvent, EndCalendar>>

\* Calendar blocks: without events, with two events, with a block that is
\* skipped, with an event that holds a block, and with a skipped block that
\* holds an X-END line.
Blocks ==
    {<<BeginCalendar, <<"P", "R", "O", "D", "I", "D", ":", "p", "1">>, EndCalendar>>,
     <<BeginCalendar, <<"P", "R", "O", "D", "I", "D", ":", "p", "2">>, BeginEvent, <<"U", "I", "D", ":", "u", "1">>, EndEvent,
       BeginEvent, <<"U", "I", "D", ":", "u", "2">>, EndEvent, EndCalendar>>,
     <<BeginCalendar, <<"P", "R", "O", "D", "I", "D", ":", "p", "3">>, <<"B", "E", "G", "I", "N", ":", "V", "T", "O", "D", "O">>, <<"B", "E", "G", "I", "N", ":", "V", "A", "L", "A", "R", "M">>, <<"E", "N", "D", ":", "V", "A", "L", "A", "R", "M">>,
       <<"E", "N", "D", ":", "V", "T", "O", "D", "O">>, BeginEvent, <<"U", "I", "D", ":", "u", "3">>, EndEvent, EndCalendar>>,
     <<BeginCalendar, BeginEvent, <<"B", "E", "G", "I", "N", ":", "V", "A", "L", "A", "R", "M">>, <<"E", "N", "D", ":", "V", "A", "L", "A", "R", "M">>, <<"U", "I", "D", ":", "u", "4">>,
       EndEvent, <<"P", "R", "O", "D", "I", "D", ":", "p", "4">>, EndCalendar>>,
     <<BeginCalendar, <<"B", "E", "G", "I", "N", ":", "V", "T", "O", "D", "O">>, <<"X", "-", "E", "N", "D", ":", "V", "T", "O", "D", "O">>, <<"E", "N", "D", ":", "V", "T", "O", "D", "O">>, <<"P", "R", "O", "D", "I", "D", ":", "p", "5">>,
       EndCalendar>>}

RECURSIVE Flatten(_)
Flatten(ss) == IF ss = <<>> THEN <<>> ELSE Head(ss) \o Flatten(Tail(ss))

\* Property lines of a calendar and of an event whose value the assemblers
\* accept, and ones whose value or parameters they refuse.
CalendarValid ==
    {<<"P", "R", "O", "D", "I", "D", ":", "p">>, <<"X", "-", "P", "R", "O", "D", "I", "D", ":", "x">>, <<"V", "E", "R", "S", "I", "O", "N", ":", "2", ".", "0">>, <<"C", "A", "L", "S", "C", "A", "L", "E", ":", "G", "R", "E", "G", "O", "R", "I", "A", "N">>,
     <<"C", "A", "L", "S", "C", "A", "L", "E", ":", "J", "U", "L", "I", "A", "N">>, <<"M", "E", "T", "H", "O", "D", ":", "P", "U", "B", "L", "I", "S", "H">>}

CalendarInvalid ==
    {<<"P", "R", "O", "D", "I", "D", ";", "a", "=", "b", ":", "p">>, <<"V", "E", "R", "S", "I", "O", "N", ":", "1", ".", "0">>, <<"C", "A", "L", "S", "C", "A", "L", "E", ":", "?">>, <<"M", "E", "T", "H", "O", "D", ":", "?">>}

\* VERSION lines: the one that is accepted, and ones with another value, with
\* a registered parameter and with an extension parameter.
VersionLines ==
    {<<"V", "E", "R", "S", "I", "O", "N", ":", "2", ".", "0">>, <<"V", "E", "R", "S", "I", "O", "N", ":", "1", ".", "0">>, <<"V", "E", "R", "S", "I", "O", "N", ";", "a", "=", "b", ":", "2", ".", "0">>, <<"V", "E", "R", "S", "I", "O", "N", ";", "X", "-", "a", "=", "b", ":", "2", ".", "0">>}

EventValid ==
    {<<"C", "L", "A", "S", "S", ":", "P", "U", "B", "L", "I", "C">>, <<"C", "L", "A", "S", "S", ":", "X", "-", "a", "b", "c", "-", "m", "i", "n", "e">>,
     <<"C", "R", "E", "A", "T", "E", "D", ":", "2", "0", "2", "4", "0", "2", "2", "9", "T", "2", "3", "5", "9", "6", "0", "Z">>,
     <<"D", "E", "S", "C", "R", "I", "P", "T", "I", "O", "N", ";", "L", "A", "N", "G", "U", "A", "G", "E", "=", "e", "n", ":", "d">>,
     <<"D", "T", "S", "T", "A", "R", "T", ":", "2", "0", "2", "4", "0", "1", "0", "1">>, <<"D", "T", "S", "T", "A", "R", "T", ":", "2", "0", "2", "4", "0", "1", "0", "1", "T", "1", "2", "0", "0", "0", "0">>,
     <<"G", "E", "O", ":", "1", ".", "5", ";", "-", "2">>,
     <<"L", "A", "S", "T", "-", "M", "O", "D", "I", "F", "I", "E", "D", ":", "2", "0", "2", "4", "0", "1", "0", "1", "T", "0", "0", "0", "0", "0", "0", "Z">>,
     <<"L", "A", "S", "T", "-", "M", "O", "D", "I", "F", "I", "E", "D", ":", "2", "0", "2", "4", "0", "1", "0", "1", "T", "0", "0", "0", "0", "0", "0">>,
     <<"D", "T", "S", "T", "A", "M", "P", ":", "2", "0", "2", "4", "0", "1", "0", "1", "T", "0", "0", "0", "0", "0", "0">>,
     <<"L", "O", "C", "A", "T", "I", "O", "N", ":", "l">>,
     <<"O", "R", "G", "A", "N", "I", "Z", "E", "R", ";", "C", "N", "=", "m", "e", ":", "m", "a", "i", "l", "t", "o", ":", "a", "@", "b">>,
     <<"P", "R", "I", "O", "R", "I", "T", "Y", ":", "1", "2">>,
     <<"D", "T", "S", "T", "A", "M", "P", ":", "2", "0", "2", "4", "0", "1", "0", "1", "T", "0", "0", "0", "0", "0", "0", "Z">>,
     <<"S", "E", "Q", ":", "7">>,
     <<"S", "T", "A", "T", "U", "S", ":", "C", "O", "N", "F", "I", "R", "M", "E", "D">>,
     <<"S", "U", "M", "M", "A", "R", "Y", ":", "s">>,
     <<"T", "R", "A", "N", "S", "P", ":", "T", "R", "A", "N", "S", "P", "A", "R", "E", "N", "T">>,
     <<"U", "I", "D", ":", "v">>, <<"X", "-", "U", "I", "D", ":", "w">>,
     <<"R", "E", "C", "U", "R", "R", "E", "N", "C", "E", "-", "I", "D", ";", "V", "A", "L", "U", "E", "=", "D", "A", "T", "E", ":", "2", "0", "2", "4", "0", "1", "0", "1">>,
     <<"D", "T", "E", "N", "D", ":", "2", "0", "2", "4", "0", "1", "0", "2", "T", "0", "0", "0", "0", "0", "0">>,
     <<"D", "U", "R", "A", "T", "I", "O", "N", ":", "P", "T", "1", "H">>, <<"D", "U", "R", "A", "T", "I", "O", "N", ":", "-", "P", "2", "W">>}

EventInvalid ==
    {<<"C", "L", "A", "S", "S", ":", "?">>,
     <<"C", "R", "E", "A", "T", "E", "D", ":", "2", "0", "2", "4", "0", "1", "0", "1", "T", "0", "0", "0", "0", "0", "0">>, <<"C", "R", "E", "A", "T", "E", "D", ":", "2", "0", "2", "4">>,
     <<"D", "E", "S", "C", "R", "I", "P", "T", "I", "O", "N", ";", "L", "A", "N", "G", "U", "A", "G", "E", "=", "a", ",", "b", ":", "d">>,
     <<"D", "T", "S", "T", "A", "R", "T", ":", "x">>,
     <<"G", "E", "O", ":", "1">>,
     <<"L", "A", "S", "T", "-", "M", "O", "D", "I", "F", "I", "E", "D", ":", "2", "0", "2", "4", "0", "2", "3", "0", "T", "0", "0", "0", "0", "0", "0", "Z">>,
     <<"L", "O", "C", "A", "T", "I", "O", "N", ";", "A", "L", "T", "R", "E", "P", "=", "a", ",", "b", ":", "l">>,
     <<"O", "R", "G", "A", "N", "I", "Z", "E", "R", ":", "x">>,
     <<"P", "R", "I", "O", "R", "I", "T", "Y", ":", "2", "5", "6">>,
     <<"D", "T", "S", "T", "A", "M", "P", ":", "2", "0", "2", "4", "0", "1", "0", "1", "T", "2", "5", "0", "0", "0", "0", "Z">>,
     <<"S", "E", "Q", ":", "-", "1">>,
     <<"S", "T", "A", "T", "U", "S", ":", "D", "O", "N", "E">>,
     <<"S", "U", "M", "M", "A", "R", "Y", ";", "L", "A", "N", "G", "U", "A", "G", "E", "=", "a", ",", "b", ":", "s">>,
     <<"T", "R", "A", "N", "S", "P", ":", "x">>,
     <<"R", "E", "C", "U", "R", "R", "E", "N", "C", "E", "-", "I", "D", ";", "V", "A", "L", "U", "E", "=", "T", "I", "M", "E", ":", "2", "0", "2", "4", "0", "1", "0", "1">>,
     <<"D", "T", "E", "N", "D", ";", "V", "A", "L", "U", "E", "=", "D", "A", "T", "E", ":", "x">>,
     <<"D", "U", "R", "A", "T", "I", "O", "N", ":", "P", "1", "D">>}

\* Lines of an event that are pushed onto its lists.
EventRepeatable ==
    {<<"A", "T", "T", "A", "C", "H", "M", "E", "N", "T", ":", "h", "t", "t", "p", ":", "/", "/", "a", "/", "b">>, <<"A", "T", "T", "A", "C", "H", "M", "E", "N", "T", ";", "V", "A", "L", "U", "E", "=", "B", "I", "N", "A", "R", "Y", ";", "E", "N", "C", "O", "D", "I", "N", "G", "=", "B", "A", "S", "E", "6", "4", ":", "Q", "Q", "=", "=">>,
     <<"A", "T", "T", "A", "C", "H", "M", "E", "N", "T", ";", "V", "A", "L", "U", "E", "=", "B", "I", "N", "A", "R", "Y", ":", "Q", "Q", "=", "=">>,
     <<"A", "T", "T", "E", "N", "D", "E", "E", ";", "R", "O", "L", "E", "=", "C", "H", "A", "I", "R", ";", "M", "E", "M", "B", "E", "R", "=", "a", ",", "b", ":", "m", "a", "i", "l", "t", "o", ":", "a", "@", "b">>, <<"A", "T", "T", "E", "N", "D", "E", "E", ";", "R", "O", "L", "E", "=", "a", ",", "b", ":", "x">>,
     <<"C", "A", "T", "E", "G", "O", "R", "I", "E", "S", ":", "a", ",", "b", "\\", ",", "c">>, <<"C", "A", "T", "E", "G", "O", "R", "I", "E", "S", ":", "a", "\\", "x">>,
     <<"C", "O", "M", "M", "E", "N", "T", ":", "c">>, <<"C", "O", "N", "T", "A", "C", "T", ":", "c">>,
     <<"E", "X", "D", "A", "T", "E", ":", "2", "0", "2", "4", "0", "1", "0", "1", "T", "0", "0", "0", "0", "0", "0", ",", "2", "0", "2", "4", "0", "1", "0", "2", "T", "0", "0", "0", "0", "0", "0">>, <<"E", "X", "D", "A", "T", "E", ";", "V", "A", "L", "U", "E", "=", "D", "A", "T", "E", ":", "2", "0", "2", "4", "0", "1", "0", "1", ",", "x">>}

\* The documents the parser is run on, each with the text it is compared
\* with (the same text where nothing is taken out of it).
Documents ==
    {[text |-> t, stripped |-> t] : t \in SeqUpTo(BlankChars, MaxBlank) \cup FixedTexts}
    \cup {[text |-> Join(d), stripped |-> Join(d)] :
            d \in SeqUpTo(StructLines, MaxDocLines)}
    \cup {[text |-> Join(Flatten(bs)), stripped |-> Join(Flatten(bs))] :
            bs \in SeqUpTo(Blocks, MaxCalendars)}
    \cup {[text |-> Join(InsertAfter(BaseDoc, k, x)), stripped |-> Join(BaseDoc)] :
            k \in 1..(Len(BaseDoc) - 1), x \in Extras}
    \cup {[text |-> Join(<<BeginCalendar, p, q, EndCalendar>>),
           stripped |-> Join(<<BeginCalendar, p, q, EndCalendar>>)] :
            p \in CalendarValid, q \in CalendarValid \cup CalendarInvalid}
    \cup {[text |-> Join(<<BeginCalendar, <<"P", "R", "O", "D", "I", "D", ":", "p">>, p, q, EndCalendar>>),
           stripped |-> Join(<<BeginCalendar, <<"P", "R", "O", "D", "I", "D", ":", "p">>, p, q, EndCalendar>>)] :
            p \in VersionLines, q \in VersionLines}
    \cup {[text |-> Join(<<BeginCalendar, <<"P", "R", "O", "D", "I", "D", ":", "p">>, BeginEvent, <<"U", "I", "D", ":", "u">>, p, q,
                           EndEvent, EndCalendar>>),
           stripped |-> Join(<<BeginCalendar, <<"P", "R", "O", "D", "I", "D", ":", "p">>, BeginEvent, <<"U", "I", "D", ":", "u">>, p, q,
                               EndEvent, EndCalendar>>)] :
            p \in EventValid \cup EventRepeatable,
            q \in EventValid \cup EventInvalid \cup EventRepeatable}

Init ==
    /\ \E d \in Documents : text = d.text /\ stripped = d.stripped
    /\ input = text
    /\ lines = <<>>
    /\ iterDone = FALSE
    /\ cache = <<>>
    /\ pc = "parse"
    /\ calendars = <<>>
    /\ builder = CalendarBuilder_new
    /\ event = EventBuilder_default
    /\ depth = 0
    /\ ret = "calendar"
    /\ error = None
    /\ taken = <<>>
    /\ raw = <<>>
    /\ rawOwned = FALSE
    /\ parsed = None

\* The parser's state, as the record the steps are written on.
State ==
    [input |-> input, cache |-> cache, lines |-> lines, iterDone |-> iterDone,
     pc |-> pc, calendars |-> calendars, builder |-> builder, event |-> event,
     depth |-> depth, ret |-> ret, error |-> error, taken |-> taken]

Becomes(s) ==
    /\ input' = s.input
    /\ cache' = s.cache
    /\ lines' = s.lines
    /\ iterDone' = s.iterDone
    /\ pc' = s.pc
    /\ calendars' = s.calendars
    /\ builder' = s.builder
    /\ event' = s.event
    /\ depth' = s.depth
    /\ ret' = s.ret
    /\ error' = s.error
    /\ taken' = s.taken
    /\ UNCHANGED <<text, stripped, raw, rawOwned, parsed>>

\* lib.rs parse tests whether the input is exhausted, and returns if it is.
ParseIsEmpty == pc = "parse" /\ Becomes(parse_is_empty(State))

\* Calendar::parse takes the BEGIN line.
CalendarBegin == pc = "begin" /\ Becomes(Calendar_parse_begin(State))

\* Calendar::parse takes a line of the calendar.
CalendarLine == pc = "calendar" /\ Becomes(Calendar_parse(State))

\* Event::parse takes a line of the event.
EventLine == pc = "event" /\ Becomes(Event_parse(State))

\* Lexer::skip_current takes a line of the block it skips.
SkipLine == pc = "skip" /\ Becomes(skip_current(State))

Next == ParseIsEmpty \/ CalendarBegin \/ CalendarLine \/ EventLine \/ SkipLine

Spec == Init /\ [][Next]_vars


\* ------------------------------------------ C1..C6: the block structure
\*
\* The document as its text has it, against which the parse is compared: a
\* line's name is the text before its first ';' or ':', a line named BEGIN
\* opens a block and a line named END closes the innermost open one.

\* The name a line is written with.
WrittenName(line) ==
    LET cut == {i \in 1..Len(line.src) : line.src[i] \in {";", ":"}}
    IN IF cut = {} THEN line.src ELSE SubSeq(line.src, 1, Min(cut) - 1)

\* The blocks open after the first n lines taken, outermost first, each by
\* the value of its BEGIN line.
RECURSIVE OpenBlocks(_)
OpenBlocks(n) ==
    IF n = 0 THEN <<>>
    ELSE LET before == OpenBlocks(n - 1)
         IN IF WrittenName(taken[n]) = <<"B", "E", "G", "I", "N">> THEN Append(before, taken[n].value)
            ELSE IF WrittenName(taken[n]) = <<"E", "N", "D">> /\ before # <<>>
                 THEN SubSeq(before, 1, Len(before) - 1)
            ELSE before

InCalendar(n) == OpenBlocks(n) = <<<<"V", "C", "A", "L", "E", "N", "D", "A", "R">>>>

InEvent(n) == OpenBlocks(n) = <<<<"V", "C", "A", "L", "E", "N", "D", "A", "R">>, <<"V", "E", "V", "E", "N", "T">>>>

\* The line that opened the block that the n-th line taken is directly in.
OpenedAt(n) ==
    CHOOSE k \in 1..(n - 1) :
        /\ WrittenName(taken[k]) = <<"B", "E", "G", "I", "N">>
        /\ Len(OpenBlocks(k)) = Len(OpenBlocks(n - 1))
        /\ \A j \in (k + 1)..(n - 1) : Len(OpenBlocks(j)) >= Len(OpenBlocks(k))

\* The n-th line taken closes a block that is written with a line named name
\* directly in it.
ClosesBlockWith(n, name) ==
    \E j \in (OpenedAt(n) + 1)..(n - 1) :
        /\ WrittenName(taken[j]) = name
        /\ OpenBlocks(j - 1) = OpenBlocks(n - 1)

\* The lines taken that close a calendar and that close an event.
CalendarEnds == {n \in 1..Len(taken) : WrittenName(taken[n]) = <<"E", "N", "D">> /\ InCalendar(n - 1)}

EventEnds == {n \in 1..Len(taken) : WrittenName(taken[n]) = <<"E", "N", "D">> /\ InEvent(n - 1)}

\* C1: required fields are checked when a block is closed.  A calendar that
\* reaches its END without a PRODID line, and an event that reaches its END
\* without a UID line, make parse fail, with the error that names the missing
\* field; the minimal document parses to one calendar with its PRODID value
\* and no events.
C1_RequiredFieldsChecked ==
    /\ pc # "failed" =>
           /\ \A n \in CalendarEnds : ClosesBlockWith(n, <<"P", "R", "O", "D", "I", "D">>)
           /\ \A n \in EventEnds : ClosesBlockWith(n, <<"U", "I", "D">>)
    /\ (pc = "failed" /\ taken # <<>>) =>
           LET n == Len(taken)
           IN /\ (n \in CalendarEnds /\ taken[n].value = <<"V", "C", "A", "L", "E", "N", "D", "A", "R">>
                    /\ ~ClosesBlockWith(n, <<"P", "R", "O", "D", "I", "D">>))
                  => error = Some(Msg("PRODID not specified"))
              /\ (n \in EventEnds /\ taken[n].value = <<"V", "E", "V", "E", "N", "T">>
                    /\ ~ClosesBlockWith(n, <<"U", "I", "D">>))
                  => error = Some(Msg("missing UID on VEVENT"))
    /\ text = MinimalDoc =>
           /\ pc # "failed"
           /\ pc = "done" =>
                  /\ Len(calendars) = 1
                  /\ calendars[1].prod_id = <<"-", "/", "/", "t", "e", "s", "t", "/", "/">>
                  /\ calendars[1].events = <<>>

\* The fields with a setter that refuses a second value, and the error each
\* setter returns.
C2_Slots ==
    [prod_id |-> AtLeast2("0..=1", "PRODID"),
     cal_scale |-> AtLeast2("0..=1", "CALSCALE"),
     method |-> AtLeast2("0..=1", "METHOD"),
     class |-> AtLeast2("0..=1", "CLASS"),
     created |-> AtLeast2("0..=1", "CREATED"),
     description |-> AtLeast2("0..=1", "DESCRIPTION"),
     start |-> AtLeast2("0..=1", "START"),
     geo |-> AtLeast2("0..=1", "GEO"),
     last_modified |-> AtLeast2("0..=1", "LAST-MODIFIED"),
     location |-> AtLeast2("0..=1", "LOCATION"),
     organizer |-> AtLeast2("0..=1", "ORGANIZER"),
     priority |-> AtLeast2("0..=1", "PRIORITY"),
     timestamp |-> AtLeast2("0..=1", "DTSTAMP"),
     sequence |-> AtLeast2("0..=1", "SEQ"),
     status |-> AtLeast2("0..=1", "STATUS"),
     summary |-> AtLeast2("0..=1", "SUMMARY"),
     time_transparency |-> AtLeast2("0..=1", "TRANSP"),
     uid |-> AtLeast2("1", "UID"),
     recurrence_id |-> AtLeast2("0..=1", "RECURRENCE-ID"),
     end |-> AtLeast2("0..1 of", "DTEND | DURATION")]

\* No field of a builder, of an event or of a calendar was assigned twice.
C2_NoSecondValue ==
    LET Once(a) == \A i, j \in 1..Len(a) : a[i] = a[j] => i = j
    IN /\ Once(builder.assigned)
       /\ Once(event.assigned)
       /\ \A i \in 1..Len(builder.events) : Once(builder.events[i].assigned)
       /\ \A c \in 1..Len(calendars) :
              /\ Once(calendars[c].assigned)
              /\ \A i \in 1..Len(calendars[c].events) :
                     Once(calendars[c].events[i].assigned)

\* The step that takes a line for a field that is already set fails; when
\* always is FALSE the error is only required to be the setter's if the
\* line's own value was accepted.
C2_Aborts(always) ==
    LET t == take_next(State)
        d == IF pc = "calendar" THEN CalendarBranch(t.line.val)
             ELSE EventBranch(t.line.val)
        self == IF pc = "calendar" THEN builder ELSE event
    IN (/\ pc \in {"calendar", "event"}
        /\ t.ok
        /\ t.line.some
        /\ d.kind = "set"
        /\ d.id \in DOMAIN C2_Slots
        /\ self[d.id].some)
       => /\ pc' = "failed"
          /\ (always \/ d.value.ok) => error' = Some(C2_Slots[d.id])

C3_BlockStructureEnforced ==
    /\ (pc = "done" /\ taken # <<>>) =>
           /\ WrittenName(taken[1]) = <<"B", "E", "G", "I", "N">>
           /\ taken[1].value = <<"V", "C", "A", "L", "E", "N", "D", "A", "R">>
    /\ pc # "failed" =>
           /\ \A n \in CalendarEnds : taken[n].value = <<"V", "C", "A", "L", "E", "N", "D", "A", "R">>
           /\ \A n \in EventEnds : taken[n].value = <<"V", "E", "V", "E", "N", "T">>
    /\ pc = "done" => OpenBlocks(Len(taken)) = <<>>

\* C4: lines and whole nested blocks that the assemblers have no branch for,
\* all well-formed, cause no error and change nothing: the parse of the text
\* returns the calendars that the parse of the text without them returns.
C4_UnrecognisedLinesIgnored ==
    (pc \in {"done", "failed"} /\ stripped # text) =>
        LET without == RunParse(ParserNew(stripped))
        IN without.pc = "done" => (pc = "done" /\ calendars = without.calendars)

\* C5: a text of spaces and line terminators only, or an empty one, is no
\* document: the unfolder yields no line for it and parse returns no calendar
\* and no error.
C5_BlankInputIsNoDocument ==
    (\A i \in 1..Len(text) : text[i] \in BlankChars) =>
        /\ lines = <<>>
        /\ pc # "failed"
        /\ pc = "done" => calendars = <<>>

\* The depth of the block the parse is in.
Level ==
    IF pc \in {"parse", "begin", "done"} THEN 0
    ELSE IF pc = "calendar" THEN 1
    ELSE IF pc = "event" THEN 2
    ELSE (IF ret = "calendar" THEN 1 ELSE 2) + depth

\* The events of all the calendars, closed or not.
RECURSIVE EventCount(_)
EventCount(c) == IF c = 0 THEN 0 ELSE EventCount(c - 1) + Len(calendars[c].events)

\* C6: the lines are taken in the order of the document, each nested block is
\* consumed through the END that closes it before the block around it takes
\* its next line, and there is one calendar for each calendar block closed
\* and one event for each event block closed, in that order.
C6_BlocksInDocumentOrder ==
    pc # "failed" =>
        /\ \A n \in 1..Len(taken) : taken[n].src = lines[n].line
        /\ Level = Len(OpenBlocks(Len(taken)))
        /\ Len(calendars) = Cardinality(CalendarEnds)
        /\ EventCount(Len(calendars)) + (IF pc \in {"parse", "begin", "done"} THEN 0
                                          ELSE Len(builder.events))
               = Cardinality(EventEnds)

\* ------------------------------------------------------- C7: the unfolder

\* The logical lines yielded so far, without the history fields.
Yielded == [i \in 1..Len(lines) |-> lines[i].line]

IsCRLFAt(t, i) == i + 1 <= Len(t) /\ t[i] = CR /\ t[i + 1] = LF

\* The reference unfolding, one scan of the text from offset i: cur is the
\* logical line in progress, open says that a logical line is in progress,
\* out the logical lines completed.
RECURSIVE RefScan(_, _, _, _, _)
RefScan(t, i, cur, open, out) ==
    IF i > Len(t)
    THEN IF open THEN Append(out, cur) ELSE out
    ELSE IF IsCRLFAt(t, i)
         THEN IF i + 2 <= Len(t) /\ t[i + 2] = SP
              THEN \* a fold marker: drop CRLF and exactly one space
                   RefScan(t, i + 3, cur, TRUE, out)
              ELSE \* a terminator: the next physical line, if any, is a new line
                   RefScan(t, i + 2, <<>>, i + 2 <= Len(t), Append(out, cur))
         ELSE RefScan(t, i + 1, Append(cur, t[i]), TRUE, out)

RefUnfold(t) == RefScan(t, 1, <<>>, Len(t) > 0, <<>>)

IsPrefix(p, s) == Len(p) <= Len(s) /\ p = SubSeq(s, 1, Len(p))

\* C7: the lines the unfolder yields are, in order, the reference unfolding of
\* the text (split on CRLF only, continuation lines appended minus their one
\* leading space, a last line without terminator yielded, no extra line for a
\* trailing CRLF); once it has returned None it has yielded all of them, and
\* every further call returns None again.
C7_UnfoldMatchesReference ==
    /\ IsPrefix(Yielded, RefUnfold(text))
    /\ iterDone => /\ Yielded = RefUnfold(text)
                   /\ ~LineIterNext(input).item.some
    /\ LineIterNext(input).item.some => Len(LineIterNext(input).input) < Len(input)

\* The text of tests::mult_continue_line (continuations of one and of two
\* spaces, a last line without terminator), unfolded to its end.
C7_Witness ==
    /\ iterDone
    /\ Len(text) > MaxText
    /\ Len(lines) = 3
    /\ \A i \in {1, 3} : lines[i].owned /\ lines[i].folds # <<>>
    /\ Yielded = <<<<"F", "i", "r", "s", "t", " ", "l", "i", "n", "e", " ", "w", "i", "t", "h", " ", "c", "o", "n", "t", "i", "n", "u", "a", "t", "i", "o", "n">>,
                   <<"S", "e", "c", "o", "n", "d", " ", "l", "i", "n", "e", " ">>,
                   <<"T", "h", "i", "r", "d", " ", "l", "i", "n", "e", " ", "w", "i", "t", "h", " ", "c", "o", "n", "t", "i", "n", "u", "a", "t", "i", "o", "n">>>>

\* ------------------------------------------------- C8: fold invertibility

\* line with the fold marker put back at each of the offsets fs.
RECURSIVE InsertFolds(_, _)
InsertFolds(line, fs) ==
    IF fs = <<>> THEN line
    ELSE LET p == fs[Len(fs)]
         IN InsertFolds(SubSeq(line, 1, p), SubSeq(fs, 1, Len(fs) - 1))
                \o <<CR, LF, SP>> \o SliceFrom(line, p)

\* The yielded lines, folded again and joined with CRLF between them.
RECURSIVE Refold(_)
Refold(ls) ==
    IF ls = <<>> THEN <<>>
    ELSE LET head == InsertFolds(ls[1].line, ls[1].folds)
         IN IF Len(ls) = 1 THEN head
            ELSE head \o <<CR, LF>> \o Refold(Tail(ls))

\* Every CR of the text is followed by LF and every LF preceded by CR.
OnlyCRLF(t) ==
    \A i \in 1..Len(t) :
        /\ t[i] = CR => IsCRLFAt(t, i)
        /\ t[i] = LF => (i > 1 /\ t[i - 1] = CR)

EndsWithCRLF(t) == Len(t) >= 2 /\ IsCRLFAt(t, Len(t) - 1)

WithoutFinalCRLF(t) == IF EndsWithCRLF(t) THEN SubSeq(t, 1, Len(t) - 2) ELSE t

\* C8 as stated: for a text with only CRLF terminators, the unfolded lines,
\* folded again and joined with CRLF, are the original text exactly.
C8_RefoldIsOriginal ==
    (iterDone /\ OnlyCRLF(text)) => Refold(lines) = text

\* C8 as amended: unfolding, then putting the fold markers back and joining
\* the lines with CRLF, gives the original text except for its final CRLF,
\* when it ends with one (the unfolder yields the same lines with and without
\* it); no other character is dropped or added.
C8_RefoldUpToFinalCRLF ==
    iterDone => Refold(lines) = WithoutFinalCRLF(text)

\* A text with a fold and a final CRLF, unfolded to its end.
C8_Witness ==
    /\ iterDone
    /\ EndsWithCRLF(text)
    /\ OnlyCRLF(text)
    /\ \E i \in 1..Len(lines) : lines[i].folds # <<>> /\ Len(lines[i].line) >= 1

\* ------------------------------------------ C9, C10: the line splitter

\* The offsets of s that are outside quotes: an even number of double quotes
\* comes before them.
OutsideQuotes(s, i) == Cardinality({j \in 1..(i - 1) : s[j] = DQUOTE}) % 2 = 0

\* The offsets at which s holds the delimiter d outside quotes.
SplitPoints(s, d) == {i \in 1..Len(s) : s[i] = d /\ OutsideQuotes(s, i)}

\* s from offset start on, cut at the delimiters d that are outside quotes; no
\* piece for an empty remainder.
RECURSIVE RefPiecesFrom(_, _, _)
RefPiecesFrom(s, d, start) ==
    LET later == {i \in SplitPoints(s, d) : i >= start}
    IN IF start > Len(s) THEN <<>>
       ELSE IF later = {} THEN <<SubSeq(s, start, Len(s))>>
       ELSE <<SubSeq(s, start, Min(later) - 1)>> \o RefPiecesFrom(s, d, Min(later) + 1)

RefPieces(s, d) == RefPiecesFrom(s, d, 1)

\* A name: letters, digits and '-'.
RefNameOk(n) == \A i \in 1..Len(n) : is_alphanumeric(n[i]) \/ n[i] = "-"

\* A parameter value: a quoted string without quote or control character
\* inside, or a text without quote, delimiter or control character.
RefValueOk(v) ==
    IF Len(v) > 0 /\ v[1] = DQUOTE
    THEN /\ Len(v) >= 2
         /\ v[Len(v)] = DQUOTE
         /\ \A i \in 2..(Len(v) - 1) : v[i] # DQUOTE /\ ~is_control(v[i])
    ELSE \A i \in 1..Len(v) : v[i] \notin {DQUOTE, ";", ":", ","} /\ ~is_control(v[i])

\* The value a well-formed parameter value stands for.
RefValue(v) ==
    IF Len(v) > 0 /\ v[1] = DQUOTE THEN SubSeq(v, 2, Len(v) - 1) ELSE v

\* The text of parameter p before its first '=', and the text after it.
RefParamName(p) == SubSeq(p, 1, find(p, "=") - 1)

RefParamRest(p) == SliceFrom(p, find(p, "="))

\* A parameter: a name, '=', and values separated by ',' outside quotes.
RefParamOk(p) ==
    /\ find(p, "=") > 0
    /\ RefNameOk(RefParamName(p))
    /\ LET vs == RefPieces(RefParamRest(p), ",")
       IN \A i \in 1..Len(vs) : RefValueOk(vs[i])

\* A parameter section: parameters separated by ';' outside quotes.
RefSectionOk(sec) ==
    LET ps == RefPieces(sec, ";")
    IN \A i \in 1..Len(ps) : RefParamOk(ps[i])

\* How a well-formed section is split: its parameters, each with its values as
\* written.
RefSplit(sec) ==
    LET ps == RefPieces(sec, ";")
    IN [i \in 1..Len(ps) |->
           [param |-> ps[i], values |-> RefPieces(RefParamRest(ps[i]), ",")]]

\* The values, in order, of the parameters of ps that are named n.
RECURSIVE RefValuesOf(_, _)
RefValuesOf(ps, n) ==
    IF ps = <<>> THEN <<>>
    ELSE LET vs == RefPieces(RefParamRest(ps[1]), ",")
             here == IF NameParse(RefParamName(ps[1]), FALSE).val = n
                     THEN [i \in 1..Len(vs) |-> RefValue(vs[i])]
                     ELSE <<>>
         IN here \o RefValuesOf(Tail(ps), n)

\* The parameters of a well-formed section: each name with all its values.
RefParams(sec) ==
    LET ps == RefPieces(sec, ";")
        names == {NameParse(RefParamName(ps[i]), FALSE).val : i \in 1..Len(ps)}
    IN {e \in {[name |-> n, values |-> RefValuesOf(ps, n)] : n \in names} :
            e.values # <<>>}

\* The name and the parameter section of the prefix of a line.
PrefixName(prefix) ==
    IF find(prefix, ";") = 0 THEN prefix ELSE SubSeq(prefix, 1, find(prefix, ";") - 1)

PrefixSection(prefix) ==
    IF find(prefix, ";") = 0 THEN <<>> ELSE SliceFrom(prefix, find(prefix, ";"))

\* The result tests::parse_line expects.
ParseLineExpected ==
    [name |-> Iana(<<"p", "a", "r", "a", "m", "-", "n", "a", "m", "e">>),
     params |-> {[name |-> Iana(<<"v", "a", "l", "1">>), values |-> <<<<"a">>, <<"b">>>>],
                 [name |-> XName(Some(<<"a", "a", "a">>), <<"v", "a", "l", "2">>), values |-> <<<<"c">>, <<"d", "-", "d">>>>]},
     value |-> <<"a", "c", "t", "u", "a", "l", " ", "v", "a", "l", "u", "e">>]

\* C9: the parameter section of a content line is split into parameters at
\* the ';' outside quotes and each parameter's value list into values at the
\* ',' outside quotes, never at a delimiter between an opening and a closing
\* double quote: a line whose section is well-formed under that splitting
\* parses, no other does, and the parameters and values are the ones that
\* splitting gives.  Borrowed and owned input parse identically, and the line
\* of tests::parse_line parses to name param-name, val1 = [a, b],
\* X-aaa-val2 = [c, d-d] and value actual value.
C9_SplitsOutsideQuotesOnly ==
    parsed.some =>
        LET r == parsed.val
            prefix == SubSeq(raw, 1, find(raw, ":") - 1)
            sec == PrefixSection(prefix)
        IN /\ r = LineParse(raw, ~rawOwned)
           /\ (find(raw, ":") > 0 /\ RefNameOk(PrefixName(prefix))) =>
                  /\ r.ok <=> RefSectionOk(sec)
                  /\ r.ok => /\ r.val.split = RefSplit(sec)
                             /\ r.val.params = RefParams(sec)
           /\ raw = ParseLineInput =>
                  /\ r.ok
                  /\ [name |-> r.val.name, params |-> r.val.params, value |-> r.val.value]
                         = ParseLineExpected

\* An owned line with a ';' or ',' between two double quotes has been parsed
\* successfully.
C9_Witness ==
    /\ parsed.some
    /\ rawOwned
    /\ parsed.val.ok
    /\ \E i \in 1..(find(raw, ":") - 1) : raw[i] \in {";", ","} /\ ~OutsideQuotes(raw, i)
    /\ Cardinality(parsed.val.val.params) = 1

\* C10: a line whose name and parameter section, up to the first ':' outside
\* quotes, are well-formed splits there: it parses, and its value is the text
\* after that ':'; a line with no ':' at all is a malformed-line error.
C10_SplitsAtColonOutsideQuotes ==
    parsed.some =>
        LET r == parsed.val
            colons == SplitPoints(raw, ":")
        IN /\ find(raw, ":") = 0 => (~r.ok /\ r.err.msg = "malformed icalendar line")
           /\ colons # {} =>
                  LET prefix == SubSeq(raw, 1, Min(colons) - 1)
                  IN (RefNameOk(PrefixName(prefix)) /\ RefSectionOk(PrefixSection(prefix)))
                         => (r.ok /\ r.val.value = SliceFrom(raw, Min(colons)))


\* ------------------------------------------------------- C11, C12: names

\* The name that a token is by its text: an extension name when it begins
\* with "X-", with the vendor id when three ASCII letters or digits and a '-'
\* follow, and a registered name otherwise.
AsciiLetterOrDigit == Upper \cup Lower \cup Digit

RefName(s) ==
    IF IsPrefix(<<"X", "-">>, s)
    THEN LET r == SliceFrom(s, 2)
         IN IF /\ Len(r) >= 4
               /\ \A i \in 1..3 : r[i] \in AsciiLetterOrDigit
               /\ r[4] = "-"
            THEN [kind |-> "XName", vendor |-> Some(SubSeq(r, 1, 3)), value |-> SliceFrom(r, 4)]
            ELSE [kind |-> "XName", vendor |-> None, value |-> r]
    ELSE [kind |-> "Iana", vendor |-> None, value |-> s]

\* C11: a name that Name::parse returns is the name its token is by its
\* text: an extension name, with or without vendor id, or the registered name
\* unchanged; X-param-name has no vendor id and the token param-name.
C11_NameClassification ==
    /\ (parsed.some /\ parsed.val.ok) => parsed.val.val = RefName(raw)
    /\ (parsed.some /\ raw = <<"X", "-", "p", "a", "r", "a", "m", "-", "n", "a", "m", "e">>) =>
           /\ parsed.val.ok
           /\ parsed.val.val = XName(None, <<"p", "a", "r", "a", "m", "-", "n", "a", "m", "e">>)

\* Name::parse has returned an extension name with a vendor id.
C11_Witness ==
    /\ parsed.some
    /\ raw = <<"X", "-", "a", "a", "a", "-", "v", "a", "l", "2">>
    /\ parsed.val.ok
    /\ parsed.val.val = XName(Some(<<"a", "a", "a">>), <<"v", "a", "l", "2">>)

\* A token of [A-Za-z0-9-]+
RefToken(s) == s # <<>> /\ \A i \in 1..Len(s) : s[i] \in AsciiLetterOrDigit \cup {"-"}

\* C12: Name::parse returns a name exactly for the texts whose token, the
\* text itself or what follows the "X-" and the vendor id, is of
\* [A-Za-z0-9-]+, and rejects every other text.
C12_TokenInvariant ==
    parsed.some => (parsed.val.ok <=> RefToken(RefName(raw).value))

\* ---------------------------------------------- C13: the case of names

\* The line with the letters of its name, the text before its first ';' or
\* ':', in upper case.
UpperName(line) ==
    LET cut == {i \in 1..Len(line) : line[i] \in {";", ":"}}
        n == IF cut = {} THEN Len(line) ELSE Min(cut) - 1
    IN [i \in 1..Len(line) |->
           IF i <= n /\ line[i] \in Lower
           THEN UpperLetters[CHOOSE j \in 1..26 : LowerLetters[j] = line[i]]
           ELSE line[i]]

\* C13: a line whose name differs from a keyword in letter case only is
\* handled as the line with the keyword in upper case is, by Calendar::parse,
\* by Event::parse and by skip_current, and its name is stored as written.
C13_DispatchIgnoresCase ==
    (parsed.some /\ parsed.val.ok) =>
        LET upper == Dispatch(UpperName(raw), rawOwned)
            this == parsed.val.val
        IN /\ upper.ok
           /\ this.begin = upper.val.begin
           /\ this.calendar = upper.val.calendar
           /\ this.event = upper.val.event
           /\ this.skip = upper.val.skip
           /\ this.line.name.value = SubSeq(raw, 1, Len(this.line.name.value))

\* ----------------------------------- C15: parameters with a single value

\* The values that the line raw is written with for the parameter named key,
\* those of all its occurrences.
WrittenValues(key) ==
    LET prefix == SubSeq(raw, 1, find(raw, ":") - 1)
    IN RefValuesOf(RefPieces(PrefixSection(prefix), ";"), Iana(key))

\* The error of VecOne::get_single for n values.
ExpectedOne(n) == Err([msg |-> "expected 1 element", found |-> n])

\* C15: a single-valued parameter written with two or more values, in one
\* list or in several occurrences of the parameter, is an error and not its
\* first value: VALUE on DTEND, RECURRENCE-ID, EXDATE and ATTACHMENT, and
\* ENCODING on an ATTACHMENT with VALUE=BINARY.
C15_SingleValuedParamRejectsList ==
    (parsed.some /\ parsed.val.ok) =>
        LET this == parsed.val.val
            name == this.line.name.value
            values == WrittenValues(<<"V", "A", "L", "U", "E">>)
            encodings == WrittenValues(<<"E", "N", "C", "O", "D", "I", "N", "G">>)
        IN /\ (name \in {<<"D", "T", "E", "N", "D">>, <<"R", "E", "C", "U", "R", "R", "E", "N", "C", "E", "-", "I", "D">>, <<"E", "X", "D", "A", "T", "E">>, <<"A", "T", "T", "A", "C", "H", "M", "E", "N", "T">>}
                 /\ Len(values) >= 2)
               => this.event.value = ExpectedOne(Len(values))
           /\ (name = <<"A", "T", "T", "A", "C", "H", "M", "E", "N", "T">> /\ values = <<<<"B", "I", "N", "A", "R", "Y">>>> /\ Len(encodings) >= 2)
               => this.event.value = ExpectedOne(Len(encodings))

\* A DTEND line with VALUE written twice, each time with one value, has been
\* refused, and so has an attachment with two encodings.
C15_Witness ==
    /\ parsed.some
    /\ parsed.val.ok
    /\ \/ /\ raw = <<"D", "T", "E", "N", "D", ";", "V", "A", "L", "U", "E", "=", "D", "A", "T", "E", ";", "V", "A", "L", "U", "E", "=", "D", "A", "T", "E", "-", "T", "I", "M", "E", ":", "2", "0", "2", "4", "0", "1", "0", "1">>
          /\ parsed.val.val.event.value = ExpectedOne(2)
       \/ /\ raw = <<"A", "T", "T", "A", "C", "H", "M", "E", "N", "T", ";", "V", "A", "L", "U", "E", "=", "B", "I", "N", "A", "R", "Y", ";", "E", "N", "C", "O", "D", "I", "N", "G", "=", "B", "A", "S", "E", "6", "4", ",", "B", "A", "S", "E", "6", "4", ":", "A", "A", "A", "A">>
          /\ parsed.val.val.event.value = ExpectedOne(2)

\* ---------------------------------------------- param_value on its own

MaxValue == 4

ValueChars == {"a", DQUOTE, ";", ":", ",", "\t"}

ValueInit ==
    /\ raw \in SeqUpTo(ValueChars, MaxValue)
    /\ rawOwned \in BOOLEAN
    /\ parsed = None
    /\ text = <<>>
    /\ input = <<>>
    /\ lines = <<>>
    /\ iterDone = FALSE
    /\ ParserIdle

\* One call of param_value.
ParseValue ==
    /\ ~parsed.some
    /\ parsed' = Some(param_value(raw, rawOwned))
    /\ UNCHANGED <<raw, rawOwned, text, input, lines, iterDone, parserVars>>

ValueNext == ParseValue

SpecValue == ValueInit /\ [][ValueNext]_vars

\* ------------------------------------------------ C14: parameter values

\* C14: param_value accepts a value that starts with a double quote exactly
\* when it ends with a second, closing double quote and no control character
\* and no double quote stands between the two, and returns the text between
\* them; it accepts any other value exactly when it holds no control
\* character and none of double quote, semicolon, colon and comma, and
\* returns it as it is.  A borrowed and an owned input give the same answer.
C14_ParamValueValidation ==
    parsed.some =>
        /\ parsed.val.ok <=> RefValueOk(raw)
        /\ parsed.val.ok => parsed.val.val = RefValue(raw)

\* A quoted value holding delimiters was accepted without its two quotes.
C14_Witness ==
    /\ parsed.some
    /\ raw = <<DQUOTE, ";", ",", DQUOTE>>
    /\ parsed.val = Ok(<<";", ",">>)

\* ------------------------------------------------ Date::parse on its own

\* The years, and the largest month and day, that the dates parsed are
\* written with.
DateYears == {2023, 2024, 1900, 2100, 500, 0}

MaxMonthWritten == 13

MaxDayWritten == 32

\* Year, month and day written with four, two and two digits.
DateText(year, month, day) == ZeroPad(4, year) \o ZeroPad(2, month) \o ZeroPad(2, day)

DateInputs ==
    {DateText(year, month, day) :
        year \in DateYears, month \in 0..MaxMonthWritten, day \in 0..MaxDayWritten}

DateInit ==
    /\ raw \in DateInputs
    /\ rawOwned = FALSE
    /\ parsed = None
    /\ text = <<>>
    /\ input = <<>>
    /\ lines = <<>>
    /\ iterDone = FALSE
    /\ ParserIdle

\* One call of Date::parse.
ParseDate ==
    /\ ~parsed.some
    /\ parsed' = Some(DateParse(raw))
    /\ UNCHANGED <<raw, rawOwned, text, input, lines, iterDone, parserVars>>

DateNext == ParseDate

SpecDate == DateInit /\ [][DateNext]_vars

\* ------------------------------------------------- C16: the day of a date

\* The year, month and day that an eight-digit text writes.
WrittenYear(s) == DecimalValue(SubSeq(s, 1, 4))

WrittenMonth(s) == DecimalValue(SubSeq(s, 5, 6))

WrittenDay(s) == DecimalValue(SubSeq(s, 7, 8))

\* The last day of a month, in a year that is or is not a leap year.
RefLastDay(month, leap) ==
    CASE month \in {1, 3, 5, 7, 8, 10, 12} -> 31
      [] month \in {4, 6, 9, 11} -> 30
      [] month = 2 -> IF leap THEN 29 ELSE 28

\* C16: Date::parse accepts a date written YYYYMMDD exactly when the month is
\* 1 to 12 and the day is 1 to the last day of the month, which is 31, 30 or,
\* in February, 29 when year % 4 = 0 and 28 otherwise; it then returns the
\* year, month and day written.  With a month of 1 to 12, a day outside that
\* range is refused with the out-of-range error for the day.  20240229 is
\* accepted and 20230229 is refused with that error.
C16_DayDependsOnMonthAndLeapRule ==
    parsed.some =>
        LET year == WrittenYear(raw)
            month == WrittenMonth(raw)
            day == WrittenDay(raw)
            last == RefLastDay(month, year % 4 = 0)
        IN /\ parsed.val.ok <=> (month \in 1..12 /\ day \in 1..last)
           /\ parsed.val.ok =>
                  parsed.val.val = [rest |-> <<>>,
                                    val |-> [full_year |-> year, month |-> month,
                                             day |-> day]]
           /\ (month \in 1..12 /\ day \notin 1..last) =>
                  parsed.val = Err(out_of_range("day", 1, last, day))
           /\ raw = <<"2", "0", "2", "4", "0", "2", "2", "9">> => parsed.val.ok
           /\ raw = <<"2", "0", "2", "3", "0", "2", "2", "9">> => parsed.val = Err(out_of_range("day", 1, 28, 29))

\* 29 February was accepted in 1900, a year that year % 4 = 0 takes for a
\* leap year, and refused in 2023.
C16_Witness ==
    /\ parsed.some
    /\ \/ /\ raw = <<"1", "9", "0", "0", "0", "2", "2", "9">>
          /\ parsed.val.ok
          /\ parsed.val.val.val.day = 29
       \/ /\ raw = <<"2", "0", "2", "3", "0", "2", "2", "9">>
          /\ ~parsed.val.ok

\* ------------------------------ Time::parse and DateTime::parse on their own

\* The hours, minutes, seconds and endings that the times parsed are written
\* with, and the dates and separators in front of them.
HourTexts == {<<"0", "0">>, <<"1", "5">>, <<"2", "3">>, <<"2", "4">>, <<"+", "1">>, <<"1">>}

MinuteTexts == {<<"0", "0">>, <<"2", "3">>, <<"5", "9">>, <<"6", "0">>, <<"+", "5">>}

SecondTexts == {<<"0", "0">>, <<"3", "6">>, <<"5", "9">>, <<"6", "0">>, <<"6", "1">>}

TimeEndings == {<<>>, <<"Z">>, <<"z">>, <<"Z", "Z">>, <<"x">>}

TimeInputs ==
    {h \o m \o sec \o ending :
        h \in HourTexts, m \in MinuteTexts, sec \in SecondTexts, ending \in TimeEndings}

DateTimeInputs ==
    {date \o sep \o time :
        date \in {<<"2", "0", "1", "1", "1", "2", "1", "7">>, <<"2", "0", "2", "3", "0", "2", "2", "9">>}, sep \in {<<"T">>, <<>>, <<"t">>},
        time \in TimeInputs}

TimeInit ==
    /\ raw \in TimeInputs \cup DateTimeInputs
    /\ rawOwned = FALSE
    /\ parsed = None
    /\ text = <<>>
    /\ input = <<>>
    /\ lines = <<>>
    /\ iterDone = FALSE
    /\ ParserIdle

\* One call of Time::parse.
ParseTime ==
    /\ ~parsed.some
    /\ parsed' = Some([ty |-> "Time", result |-> TimeParse(raw)])
    /\ UNCHANGED <<raw, rawOwned, text, input, lines, iterDone, parserVars>>

\* One call of DateTime::parse.
ParseDateTime ==
    /\ ~parsed.some
    /\ parsed' = Some([ty |-> "DateTime", result |-> DateTimeParse(raw)])
    /\ UNCHANGED <<raw, rawOwned, text, input, lines, iterDone, parserVars>>

TimeNext == ParseTime \/ ParseDateTime

SpecTime == TimeInit /\ [][TimeNext]_vars

\* ------------------------------------------ C17: times and date-times

\* A time as written: six decimal digits, the hour at most 23, the minute at
\* most 59 and the second at most 60, and then nothing or a Z.
RefTimeOk(s) ==
    /\ Len(s) \in {6, 7}
    /\ \A i \in 1..6 : is_ascii_digit(s[i])
    /\ DecimalValue(SubSeq(s, 1, 2)) <= 23
    /\ DecimalValue(SubSeq(s, 3, 4)) <= 59
    /\ DecimalValue(SubSeq(s, 5, 6)) <= 60
    /\ Len(s) = 7 => s[7] = "Z"

\* The value such a time writes.
RefTime(s) ==
    [hour |-> DecimalValue(SubSeq(s, 1, 2)),
     minute |-> DecimalValue(SubSeq(s, 3, 4)),
     second |-> DecimalValue(SubSeq(s, 5, 6)),
     utc |-> Len(s) = 7]

\* A date-time as written: a date of eight digits, a T and a time.
RefDateTimeOk(s) ==
    /\ Len(s) >= 9
    /\ DateParse(SubSeq(s, 1, 8)).ok
    /\ s[9] = "T"
    /\ RefTimeOk(SliceFrom(s, 9))

\* C17: Time::parse accepts a text exactly when it is a two-digit hour of 0 to
\* 23, a two-digit minute of 0 to 59, a two-digit second of 0 to 60 and then
\* nothing or a Z, and returns that time, utc exactly with the Z, and nothing
\* left over; DateTime::parse accepts exactly a date, a T and such a time, and
\* 20111217T152336Z is 2011-12-17 15:23:36 UTC with nothing left over.
C17_TimeGrammar ==
    parsed.some =>
        LET result == parsed.val.result
        IN IF parsed.val.ty = "Time"
           THEN /\ result.ok <=> RefTimeOk(raw)
                /\ result.ok => result.val = [rest |-> <<>>, val |-> RefTime(raw)]
           ELSE /\ result.ok <=> RefDateTimeOk(raw)
                /\ result.ok =>
                       result.val = [rest |-> <<>>,
                                     val |-> [date |-> DateParse(SubSeq(raw, 1, 8)).val.val,
                                              time |-> RefTime(SliceFrom(raw, 9))]]
                /\ raw = <<"2", "0", "1", "1", "1", "2", "1", "7", "T", "1", "5", "2", "3", "3", "6", "Z">> =>
                       result = Ok([rest |-> <<>>,
                                    val |-> [date |-> [full_year |-> 2011, month |-> 12,
                                                       day |-> 17],
                                             time |-> [hour |-> 15, minute |-> 23,
                                                       second |-> 36, utc |-> TRUE]]])

\* --------------------------------------------- formatting and parsing back

\* The values formatted: dates, times, date-times and DateOrDateTime values
\* whose fields are in the ranges that Date::parse and Time::parse check
\* against: a year of u16, a month of 1 to 12, a day of 1 to the last of the
\* month, an hour below 24, a minute below 60 and a second below 61.
FormatYears == {0, 500, 2024, 9999, 10000, 65535}

LastDay(full_year, month) ==
    IF month = 2
    THEN IF full_year % 4 = 0 THEN 29 ELSE 28
    ELSE IF month \in {4, 6, 9, 11} THEN 30 ELSE 31

FormatDates ==
    {date \in [full_year : FormatYears, month : 1..12, day : 1..31] :
        date.day <= LastDay(date.full_year, date.month)}

FormatTimes ==
    [hour : {0, 9, 23}, minute : {0, 7, 59}, second : {0, 59, 60}, utc : BOOLEAN]

FormatDateTimes ==
    {[date |-> date, time |-> time] :
        date \in {d \in FormatDates : d.month \in {2, 12} /\ d.day \in {1, 28, 31}},
        time \in FormatTimes}

FormatInputs ==
    {[ty |-> "Date", value |-> date] : date \in FormatDates}
        \cup {[ty |-> "Time", value |-> time] : time \in FormatTimes}
        \cup {[ty |-> "DateTime", value |-> dt] : dt \in FormatDateTimes}
        \cup {[ty |-> "DateOrDateTime", value |-> DateOrDateTime_Date(date)] :
                   date \in FormatDates}
        \cup {[ty |-> "DateOrDateTime", value |-> DateOrDateTime_DateTime(dt)] :
                   dt \in FormatDateTimes}

FormatInit ==
    /\ raw \in FormatInputs
    /\ rawOwned = FALSE
    /\ parsed = None
    /\ text = <<>>
    /\ input = <<>>
    /\ lines = <<>>
    /\ iterDone = FALSE
    /\ ParserIdle

\* The value is formatted with its fmt::Display and the text is parsed with
\* the parse of its type.
FormatThenParse ==
    /\ ~parsed.some
    /\ parsed' =
          Some(CASE raw.ty = "Date" ->
                      [text |-> DateDisplay(raw.value),
                       result |-> DateParse(DateDisplay(raw.value))]
                 [] raw.ty = "Time" ->
                      [text |-> TimeDisplay(raw.value),
                       result |-> TimeParse(TimeDisplay(raw.value))]
                 [] raw.ty = "DateTime" ->
                      [text |-> DateTimeDisplay(raw.value),
                       result |-> DateTimeParse(DateTimeDisplay(raw.value))]
                 [] raw.ty = "DateOrDateTime" ->
                      [text |-> DateOrDateTimeDisplay(raw.value),
                       result |-> DateOrDateTimeParse(DateOrDateTimeDisplay(raw.value))])
    /\ UNCHANGED <<raw, rawOwned, text, input, lines, iterDone, parserVars>>

FormatNext == FormatThenParse

SpecFormat == FormatInit /\ [][FormatNext]_vars

\* --------------------------------------- C18: format and parse round trip

\* The year of a formatted value, and 0 for a time.
FormattedYear(v) == IF v.ty = "Time" THEN 0 ELSE IF v.ty = "DateTime" THEN v.value.date.full_year ELSE IF v.ty = "Date" THEN v.value.full_year ELSE v.value.date.full_year

\* Parsing the text of the value gave the value back and left nothing over.
RoundTrips == parsed.val.result = Ok([rest |-> <<>>, val |-> raw.value])

\* C18 as stated: every Date, Time, DateTime and DateOrDateTime value with
\* fields in the ranges the parser checks against, a year of u16 with them,
\* formats to a text that parses back to the value with nothing left over.
C18_RoundTrip == parsed.some => RoundTrips

\* C18, for the years of at most four digits: every Date, Time, DateTime and
\* DateOrDateTime value with a year of 0 to 9999, a month of 1 to 12, a day of
\* 1 to the last of the month, an hour of 0 to 23, a minute of 0 to 59 and a
\* second of 0 to 60 formats to a text that parses back to the value with
\* nothing left over; the year 500, month 2, day 1 formats as 05000201.
C18_RoundTripFourDigitYear ==
    parsed.some =>
        /\ FormattedYear(raw) <= 9999 => RoundTrips
        /\ raw = [ty |-> "Date", value |-> [full_year |-> 500, month |-> 2, day |-> 1]]
               => parsed.val.text = <<"0", "5", "0", "0", "0", "2", "0", "1">>

\* A date-time of the year 500 with a leap second in UTC was formatted and
\* parsed back.
C18_Witness ==
    /\ parsed.some
    /\ raw.ty = "DateTime"
    /\ raw.value.date.full_year = 500
    /\ raw.value.time.second = 60
    /\ raw.value.time.utc
    /\ RoundTrips

\* -------------------------------------------- Duration::parse on its own

\* The durations parsed: a sign or none, a P or none, and then a number of
\* weeks, or days, a T and hours, minutes and seconds, each there or not, in
\* that order and in some others.
DurationBodies ==
    {<<"2", "W">>, <<"W">>, <<"2">>, <<"2", "W", "T", "1", "H">>, <<"T", "2", "0", "S", "5", "H">>, <<"T", "0", "M", "5", "H">>, <<"1", "D", "T", "2", "0", "S", "0", "M">>, <<"T", "5", "H", " ">>, <<"5", "H">>}
        \cup {d \o t \o h \o m \o sec :
                  d \in {<<>>, <<"1", "D">>, <<"1", "5", "D">>}, t \in {<<>>, <<"T">>}, h \in {<<>>, <<"5", "H">>},
                  m \in {<<>>, <<"0", "M">>}, sec \in {<<>>, <<"2", "0", "S">>}}

DurationInputs ==
    {sign \o p \o body :
        sign \in {<<>>, <<"+">>, <<"-">>}, p \in {<<"P">>, <<>>}, body \in DurationBodies}

DurationInit ==
    /\ raw \in DurationInputs
    /\ rawOwned = FALSE
    /\ parsed = None
    /\ text = <<>>
    /\ input = <<>>
    /\ lines = <<>>
    /\ iterDone = FALSE
    /\ ParserIdle

\* One call of Duration::parse.
ParseDuration ==
    /\ ~parsed.some
    /\ parsed' = Some(DurationParse(raw))
    /\ UNCHANGED <<raw, rawOwned, text, input, lines, iterDone, parserVars>>

DurationNext == ParseDuration

SpecDuration == DurationInit /\ [][DurationNext]_vars

\* ------------------------------------------------------- C19: durations

\* A number and the letter after it at the start of s: the number, by its
\* digits without leading zeros, and the text after the letter.
RefComponent(s, letter) ==
    LET n == DigitRun(s, Len(s))
    IN IF n > 0 /\ Len(s) > n /\ s[n + 1] = letter
       THEN Some([rest |-> SliceFrom(s, n + 1), val |-> StripLeadingZeros(SubSeq(s, 1, n))])
       ELSE None

\* The text after a component, or s when the component is not there, and its
\* number, or zero.
RefAfter(c, s) == IF c.some THEN c.val.rest ELSE s

RefNumber(c) == IF c.some THEN c.val.val ELSE <<>>

\* The time components after the T: hours, minutes and seconds, each there or
\* not, in that order, at least one of them, and nothing after them.
RefTimePart(s, days) ==
    LET h == RefComponent(s, "H")
        m == RefComponent(RefAfter(h, s), "M")
        sec == RefComponent(RefAfter(m, RefAfter(h, s)), "S")
    IN IF (h.some \/ m.some \/ sec.some)
             /\ RefAfter(sec, RefAfter(m, RefAfter(h, s))) = <<>>
       THEN Some(DurationKind_DateTime(days, RefNumber(h), RefNumber(m), RefNumber(sec)))
       ELSE None

\* What follows the P: weeks, or days alone, or days and a time part, or a
\* time part alone.
RefDurationKind(s) ==
    LET w == RefComponent(s, "W")
        d == RefComponent(s, "D")
    IN IF w.some
       THEN IF w.val.rest = <<>> THEN Some(DurationKind_Weeks(w.val.val)) ELSE None
       ELSE IF d.some /\ d.val.rest = <<>>
       THEN Some(DurationKind_DateTime(d.val.val, <<>>, <<>>, <<>>))
       ELSE IF starts_with(RefAfter(d, s), "T")
       THEN RefTimePart(Tail(RefAfter(d, s)), RefNumber(d))
       ELSE None

\* A duration as written: a sign or none, a P, and what follows it.
RefDuration(s) ==
    LET signed == s # <<>> /\ s[1] \in {"+", "-"}
        body == IF signed THEN Tail(s) ELSE s
    IN IF starts_with(body, "P") /\ RefDurationKind(Tail(body)).some
       THEN Some([negative |-> starts_with(s, "-"), kind |-> RefDurationKind(Tail(body)).val])
       ELSE None

\* C19: Duration::parse accepts a text exactly when it is a sign or none, a P,
\* and then a number of weeks, or a number of days alone, or days or none and
\* a T with hours, minutes and seconds, each there or not, in that order; it
\* returns negative exactly for the sign '-' and the numbers as written, with
\* nothing left over, so that P1D and P15DT5H0M20S are both accepted.
C19_DurationGrammar ==
    parsed.some =>
        /\ parsed.val.ok <=> RefDuration(raw).some
        /\ parsed.val.ok => parsed.val.val = [rest |-> <<>>, val |-> RefDuration(raw).val]

\* ----------------------------------- types/mod.rs, types/recur.rs: Recur

\* Freq::from_str
FreqFromStr(s) ==
    CASE s = <<"S", "E", "C", "O", "N", "D", "L", "Y">> -> Ok("Secondly")
      [] s = <<"M", "I", "N", "U", "T", "E", "L", "Y">> -> Ok("Minutely")
      [] s = <<"H", "O", "U", "R", "L", "Y">> -> Ok("Hourly")
      [] s = <<"D", "A", "I", "L", "Y">> -> Ok("Daily")
      [] s = <<"W", "E", "E", "K", "L", "Y">> -> Ok("Weekly")
      [] s = <<"M", "O", "N", "T", "H", "L", "Y">> -> Ok("Monthly")
      [] s = <<"Y", "E", "A", "R", "L", "Y">> -> Ok("Yearly")
      [] OTHER -> Err(Msg("expected one of SECONDLY, MINUTELY, HOURLY, DAILY, WEEKLY, MONTHLY, YEARLY"))

\* End::Forever and End::Count(count)
End_Forever == [variant |-> "Forever"]

End_Count(count) == [variant |-> "Count", count |-> count]

\* split_once of types/mod.rs: the parts before and after the first test_ch,
\* the whole input and the empty string when there is none.
types_split_once(test_ch, s) ==
    IF find(s, test_ch) = 0 THEN <<s, <<>>>>
    ELSE <<SubSeq(s, 1, find(s, test_ch) - 1), SliceFrom(s, find(s, test_ch))>>

\* _1to3_digit_int
_1to3_digit_int(ty, min, max, s) == digit_int(3, parse_u16, ty, min, max, s)

\* A number with the sign that opt_sign_is_negative read in front of it.
Signed(negative, r) ==
    IF ~r.ok THEN r
    ELSE Ok([rest |-> r.val.rest, val |-> IF negative THEN 0 - r.val.val ELSE r.val.val])

\* ordwk
ordwk(s) ==
    Signed(opt_sign_is_negative(s).negative,
           _1or2_digit_int("ordwk", 1, 53, opt_sign_is_negative(s).rest))

\* monthdaynum
monthdaynum(s) ==
    Signed(opt_sign_is_negative(s).negative,
           _1or2_digit_int("month day", 1, 31, opt_sign_is_negative(s).rest))

\* yeardaynum
yeardaynum(s) ==
    Signed(opt_sign_is_negative(s).negative,
           _1to3_digit_int("year day", 1, 366, opt_sign_is_negative(s).rest))

\* WeekDay::parse
WeekDayParse(s) ==
    IF Len(s) < 2 THEN Err(Msg("expected 2-char weekday code"))
    ELSE Bind(SubSeq(s, 1, 2), LAMBDA weekday :
            CASE weekday = <<"S", "U">> -> Ok([rest |-> SliceFrom(s, 2), val |-> "Sunday"])
              [] weekday = <<"M", "O">> -> Ok([rest |-> SliceFrom(s, 2), val |-> "Monday"])
              [] weekday = <<"T", "U">> -> Ok([rest |-> SliceFrom(s, 2), val |-> "Tuesday"])
              [] weekday = <<"W", "E">> -> Ok([rest |-> SliceFrom(s, 2), val |-> "Wednesday"])
              [] weekday = <<"T", "H">> -> Ok([rest |-> SliceFrom(s, 2), val |-> "Thursday"])
              [] weekday = <<"F", "R">> -> Ok([rest |-> SliceFrom(s, 2), val |-> "Friday"])
              [] weekday = <<"S", "A">> -> Ok([rest |-> SliceFrom(s, 2), val |-> "Saturday"])
              [] OTHER -> Err(Msg("expected 2-char weekday code")))

\* WeekDayNum::parse
WeekDayNumParse(s) ==
    Bind(s # <<>> /\ (is_ascii_digit(s[1]) \/ s[1] \in {"-", "+"}), LAMBDA numbered :
    Bind(ordwk(s), LAMBDA num :
    Bind(WeekDayParse(IF numbered THEN num.val.rest ELSE s), LAMBDA weekday :
       IF numbered /\ ~num.ok THEN num
       ELSE IF ~weekday.ok THEN weekday
       ELSE Ok([rest |-> weekday.val.rest,
                val |-> [week_num |-> IF numbered THEN Some(num.val.val) ELSE None,
                         weekday |-> weekday.val.val]]))))

\* The parser that impl_comma_list! gives each list of a recurrence rule.
ListElement(name, s) ==
    CASE name = "BySecond" -> _1or2_digit_int("second", 0, 59, s)
      [] name = "ByMinute" -> _1or2_digit_int("minute", 0, 59, s)
      [] name = "ByHour" -> _1or2_digit_int("hour", 0, 23, s)
      [] name = "ByWeekDay" -> WeekDayNumParse(s)
      [] name = "ByMonthDay" -> monthdaynum(s)
      [] name = "ByYearDay" -> yeardaynum(s)
      [] name = "ByWeekNo" -> ordwk(s)
      [] name = "ByMonth" -> _1or2_digit_int("month", 1, 12, s)
      [] name = "BySetPos" -> yeardaynum(s)

\* VecOne::parse_comma_separated_borrowed with the parser of the list name:
\* the loop after the first element, with the elements read so far.
RECURSIVE CommaLoop(_, _, _)
CommaLoop(name, s, sofar) ==
    IF ~starts_with(s, ",") THEN Ok([rest |-> s, val |-> sofar])
    ELSE Bind(ListElement(name, Tail(s)), LAMBDA val :
            IF ~val.ok THEN val
            ELSE CommaLoop(name, val.val.rest, Append(sofar, val.val.val)))

\* VecOne::parse_comma_separated_borrowed, as impl_comma_list! calls it
parse_comma_separated(name, s) ==
    Bind(ListElement(name, s), LAMBDA first :
       IF ~first.ok THEN first
       ELSE CommaLoop(name, first.val.rest, <<first.val.val>>))

\* End::parse_until: the text parsed as a DateOrDateTime.
parse_until(s) ==
    Bind(DateOrDateTimeParse(s), LAMBDA until :
       IF ~until.ok THEN until ELSE Ok([variant |-> "Until", until |-> until.val.val]))

\* End::parse_count
parse_count(s) ==
    Bind(parse_unsigned(s, U32Max), LAMBDA count :
       IF ~count.ok THEN count ELSE Ok(End_Count(count.val)))

\* Interval::parse: the number, whatever it is.
IntervalParse(s) == parse_unsigned(s, U32Max)

\* Interval::new, by the digits of the value without leading zeros.
IntervalNew(value) ==
    IF value = <<>> THEN Err(Msg("interval must be positive integer")) ELSE Ok(value)

\* The variant of Param that a key of a recurrence rule is parsed to, and the
\* field of the Builder it sets.
ParamOfKey(key) ==
    CASE key = <<"U", "N", "T", "I", "L">> -> "End" [] key = <<"C", "O", "U", "N", "T">> -> "End"
      [] key = <<"I", "N", "T", "E", "R", "V", "A", "L">> -> "Interval"
      [] key = <<"B", "Y", "S", "E", "C", "O", "N", "D">> -> "BySecond" [] key = <<"B", "Y", "M", "I", "N", "U", "T", "E">> -> "ByMinute"
      [] key = <<"B", "Y", "H", "O", "U", "R">> -> "ByHour" [] key = <<"B", "Y", "D", "A", "Y">> -> "ByWeekDay"
      [] key = <<"B", "Y", "M", "O", "N", "T", "H", "D", "A", "Y">> -> "ByMonthDay" [] key = <<"B", "Y", "Y", "E", "A", "R", "D", "A", "Y">> -> "ByYearDay"
      [] key = <<"B", "Y", "W", "E", "E", "K", "N", "O">> -> "ByWeekNo" [] key = <<"B", "Y", "M", "O", "N", "T", "H">> -> "ByMonth"
      [] key = <<"B", "Y", "S", "E", "T", "P", "O", "S">> -> "BySetPos" [] key = <<"W", "K", "S", "T">> -> "WeekStart"
      [] OTHER -> "none"

FieldOfParam(param) ==
    CASE param = "Interval" -> "interval"
      [] param = "BySecond" -> "by_second" [] param = "ByMinute" -> "by_minute"
      [] param = "ByHour" -> "by_hour" [] param = "ByWeekDay" -> "by_week_day"
      [] param = "ByMonthDay" -> "by_month_day" [] param = "ByYearDay" -> "by_year_day"
      [] param = "ByWeekNo" -> "by_week_no" [] param = "ByMonth" -> "by_month"
      [] param = "BySetPos" -> "by_set_pos" [] param = "WeekStart" -> "week_start"

\* recur::Param::parse
RecurParamParse(entry) ==
    Bind(types_split_once("=", entry), LAMBDA kv :
    Bind(ParamOfKey(kv[1]), LAMBDA param :
    Bind(CASE param = "none" -> Err(Msg("expected RECUR param"))
           [] kv[1] = <<"U", "N", "T", "I", "L">> -> parse_until(kv[2])
           [] kv[1] = <<"C", "O", "U", "N", "T">> -> parse_count(kv[2])
           [] param = "Interval" -> IntervalParse(kv[2])
           [] param = "WeekStart" -> WeekDayParse(kv[2])
           [] OTHER -> parse_comma_separated(param, kv[2]), LAMBDA val :
       IF find(entry, "=") = 0 THEN Err([msg |-> "expected tag", tag |-> <<"=">>])
       ELSE IF ~val.ok THEN val
       ELSE IF param \in {"End", "Interval"} THEN Ok([param |-> param, val |-> val.val])
       ELSE Ok([param |-> param, val |-> val.val.val]))))

\* recur::Builder::new
RecurBuilder_new(freq) ==
    [freq |-> freq, end |-> End_Forever, interval |-> None, by_second |-> None,
     by_minute |-> None, by_hour |-> None, by_week_day |-> None, by_month_day |-> None,
     by_year_day |-> None, by_week_no |-> None, by_month |-> None, by_set_pos |-> None,
     week_start |-> None]

\* recur::Builder::set_end
RecurBuilder_set_end(self, end) ==
    IF self.end # End_Forever
    THEN Err(Msg("cannot set UNTIL or COUNT more than once"))
    ELSE Ok([self EXCEPT !.end = end])

\* set_val! without its bail!: the field is replaced.
set_val_replace(self, field, val) == Ok([self EXCEPT ![field] = Some(val)])

\* The setters that set_val! writes: the field is replaced, and a value that
\* was there is an error.
set_val(self, field, val) ==
    IF self[field].some
    THEN Err([msg |-> "cannot set more than once", field |-> field])
    ELSE Ok([self EXCEPT ![field] = Some(val)])

\* recur::Builder::set_param: the builder after the call.
RecurBuilder_set_param(self, param) ==
    IF param.param = "End"
    THEN RecurBuilder_set_end(self, param.val)
    ELSE set_val(self, FieldOfParam(param.param), param.val)

\* recur::Builder::build
RecurBuilder_build(self) == self

\* The loop of Recur::parse_no_freq over the entries after the frequency.
RECURSIVE RecurEntries(_, _)
RecurEntries(builder_, rest) ==
    IF rest = <<>> THEN Ok(builder_)
    ELSE Bind(types_split_once(";", rest), LAMBDA split :
         Bind(RecurParamParse(split[1]), LAMBDA param :
            IF ~param.ok THEN param
            ELSE Bind(RecurBuilder_set_param(builder_, param.val), LAMBDA set :
                    IF ~set.ok THEN set ELSE RecurEntries(set.val, split[2]))))

\* Recur::parse_no_freq
RecurParseNoFreq(s) ==
    Bind(types_split_once(";", s), LAMBDA split :
    Bind(FreqFromStr(split[1]), LAMBDA freq :
       IF ~freq.ok THEN freq
       ELSE Bind(RecurEntries(RecurBuilder_new(freq.val), split[2]), LAMBDA built :
               IF ~built.ok THEN built ELSE Ok(RecurBuilder_build(built.val)))))

\* Recur::from_str without the test of the prefix.
RecurFromStr_prefixOptional(s) ==
    IF Len(s) >= 5 /\ SubSeq(s, 1, 5) = <<"F", "R", "E", "Q", "=">>
    THEN RecurParseNoFreq(SliceFrom(s, 5))
    ELSE RecurParseNoFreq(s)

\* impl FromStr for Recur
RecurFromStr(s) ==
    IF ~(Len(s) >= 5 /\ SubSeq(s, 1, 5) = <<"F", "R", "E", "Q", "=">>)
    THEN Err(Msg("expected FREQ="))
    ELSE RecurParseNoFreq(SliceFrom(s, 5))

\* --------------------------------------------- Recur::from_str on its own

\* The rules parsed: a start that is FREQ= or not, a frequency that is one of
\* the seven or not, and entries after it.
RecurStarts == {<<"F", "R", "E", "Q", "=">>, <<"f", "r", "e", "q", "=">>, <<"F", "R", "E", "Q">>, <<>>, <<"R", "R", "U", "L", "E", ":", "F", "R", "E", "Q", "=">>, <<" ", "F", "R", "E", "Q", "=">>}

FreqTokens ==
    {<<"S", "E", "C", "O", "N", "D", "L", "Y">>, <<"M", "I", "N", "U", "T", "E", "L", "Y">>, <<"H", "O", "U", "R", "L", "Y">>, <<"D", "A", "I", "L", "Y">>, <<"W", "E", "E", "K", "L", "Y">>, <<"M", "O", "N", "T", "H", "L", "Y">>, <<"Y", "E", "A", "R", "L", "Y">>}

OtherTokens == {<<"y", "e", "a", "r", "l", "y">>, <<>>, <<"Y", "E", "A", "R", "L", "Y", "X">>, <<"F", "O", "R", "T", "N", "I", "G", "H", "T", "L", "Y">>, <<"Y", "E", "A", "R", "L", "Y", " ">>}

RecurTails ==
    {<<>>, <<";">>, <<";", "C", "O", "U", "N", "T", "=", "2">>, <<";", "I", "N", "T", "E", "R", "V", "A", "L", "=", "3">>, <<";", "C", "O", "U", "N", "T", "=", "2", ";", "C", "O", "U", "N", "T", "=", "3">>, <<";", "C", "O", "U", "N", "T">>,
     <<";", "F", "O", "O", "=", "1">>, <<";", "C", "O", "U", "N", "T", "=", "x">>, <<";", "I", "N", "T", "E", "R", "V", "A", "L", "=", "2", ";", "C", "O", "U", "N", "T", "=", "1">>, <<";", "I", "N", "T", "E", "R", "V", "A", "L", "=", "2", ";", "I", "N", "T", "E", "R", "V", "A", "L", "=", "2">>}

RecurInputs ==
    {start \o token \o tail :
        start \in RecurStarts, token \in FreqTokens \cup OtherTokens, tail \in RecurTails}

RecurInit ==
    /\ raw \in RecurInputs
    /\ rawOwned = FALSE
    /\ parsed = None
    /\ text = <<>>
    /\ input = <<>>
    /\ lines = <<>>
    /\ iterDone = FALSE
    /\ ParserIdle

\* One call of Recur::from_str.
ParseRecur ==
    /\ ~parsed.some
    /\ parsed' = Some(RecurFromStr(raw))
    /\ UNCHANGED <<raw, rawOwned, text, input, lines, iterDone, parserVars>>

RecurNext == ParseRecur

SpecRecur == RecurInit /\ [][RecurNext]_vars

\* --------------------------------------------------- C20: FREQ= comes first

\* The frequency a token names.
RefFreq(token) ==
    CASE token = <<"S", "E", "C", "O", "N", "D", "L", "Y">> -> "Secondly" [] token = <<"M", "I", "N", "U", "T", "E", "L", "Y">> -> "Minutely"
      [] token = <<"H", "O", "U", "R", "L", "Y">> -> "Hourly" [] token = <<"D", "A", "I", "L", "Y">> -> "Daily"
      [] token = <<"W", "E", "E", "K", "L", "Y">> -> "Weekly" [] token = <<"M", "O", "N", "T", "H", "L", "Y">> -> "Monthly"
      [] token = <<"Y", "E", "A", "R", "L", "Y">> -> "Yearly"

\* The text after FREQ= up to the first ';' or the end.
RefFreqToken(s) ==
    LET after == SliceFrom(s, 5)
        semis == {i \in 1..Len(after) : after[i] = ";"}
    IN IF semis = {} THEN after
       ELSE SubSeq(after, 1, (CHOOSE i \in semis : \A j \in semis : i <= j) - 1)

\* C20: a rule that does not begin with FREQ= is refused with the error that
\* the literal FREQ= is missing; a rule that begins with FREQ= and a token
\* that is not one of SECONDLY, MINUTELY, HOURLY, DAILY, WEEKLY, MONTHLY and
\* YEARLY is refused; and FREQ= with one of the seven and nothing more is the
\* rule of that frequency that never ends, with no interval, no BY filter and
\* no week start.
C20_FreqComesFirst ==
    parsed.some =>
        /\ ~IsPrefix(<<"F", "R", "E", "Q", "=">>, raw) => parsed.val = Err(Msg("expected FREQ="))
        /\ (IsPrefix(<<"F", "R", "E", "Q", "=">>, raw) /\ RefFreqToken(raw) \notin FreqTokens) => ~parsed.val.ok
        /\ \A token \in FreqTokens :
               raw = <<"F", "R", "E", "Q", "=">> \o token =>
                   parsed.val =
                       Ok([freq |-> RefFreq(token), end |-> [variant |-> "Forever"],
                           interval |-> None, by_second |-> None, by_minute |-> None,
                           by_hour |-> None, by_week_day |-> None, by_month_day |-> None,
                           by_year_day |-> None, by_week_no |-> None, by_month |-> None,
                           by_set_pos |-> None, week_start |-> None])

\* FREQ=YEARLY was parsed to the yearly rule that never ends.
C20_Witness ==
    /\ parsed.some
    /\ raw = <<"F", "R", "E", "Q", "=", "Y", "E", "A", "R", "L", "Y">>
    /\ parsed.val.ok
    /\ parsed.val.val.freq = "Yearly"
    /\ parsed.val.val.end = End_Forever

\* ---------------------------------- the entries of a recurrence rule

\* The rules parsed: FREQ=DAILY and up to MaxPairs entries after it, each
\* after a ';', with every key that recur::Param::parse knows, a key it does
\* not know, and an entry without '='.
MaxPairs == 2

RulePairs ==
    {<<"U", "N", "T", "I", "L", "=", "2", "0", "2", "4", "0", "1", "0", "1">>, <<"U", "N", "T", "I", "L", "=", "2", "0", "2", "4", "0", "1", "0", "1", "T", "0", "0", "0", "0", "0", "0", "Z">>, <<"C", "O", "U", "N", "T", "=", "2">>, <<"I", "N", "T", "E", "R", "V", "A", "L", "=", "3">>,
     <<"I", "N", "T", "E", "R", "V", "A", "L", "=", "0">>, <<"W", "K", "S", "T", "=", "M", "O">>, <<"B", "Y", "S", "E", "C", "O", "N", "D", "=", "1", ",", "5", "9">>, <<"B", "Y", "M", "I", "N", "U", "T", "E", "=", "3">>, <<"B", "Y", "H", "O", "U", "R", "=", "4">>,
     <<"B", "Y", "D", "A", "Y", "=", "M", "O", ",", "-", "1", "S", "U">>, <<"B", "Y", "M", "O", "N", "T", "H", "D", "A", "Y", "=", "-", "1">>, <<"B", "Y", "Y", "E", "A", "R", "D", "A", "Y", "=", "1", "0", "0">>, <<"B", "Y", "W", "E", "E", "K", "N", "O", "=", "2", "0">>,
     <<"B", "Y", "M", "O", "N", "T", "H", "=", "6">>, <<"B", "Y", "S", "E", "T", "P", "O", "S", "=", "-", "1">>, <<"F", "O", "O", "=", "1">>, <<"C", "O", "U", "N", "T">>}

RECURSIVE JoinPairs(_)
JoinPairs(pairs) ==
    IF pairs = <<>> THEN <<>> ELSE <<";">> \o pairs[1] \o JoinPairs(Tail(pairs))

RuleInputs == {<<"F", "R", "E", "Q", "=", "D", "A", "I", "L", "Y">> \o JoinPairs(pairs) : pairs \in SeqUpTo(RulePairs, MaxPairs)}

\* The values Interval::new and Interval::set_value are called with, by
\* their digits.
IntervalValues == {<<>>, <<"1">>, <<"2">>, <<"4", "2", "9", "4", "9", "6", "7", "2", "9", "5">>}

RuleInit ==
    /\ raw \in RuleInputs
    /\ rawOwned = FALSE
    /\ parsed = None
    /\ text = <<>>
    /\ input = <<>>
    /\ lines = <<>>
    /\ iterDone = FALSE
    /\ ParserIdle

\* One call of Recur::from_str.
ParseRule ==
    /\ ~parsed.some
    /\ parsed' = Some([ty |-> "parse", result |-> RecurFromStr(raw)])
    /\ UNCHANGED <<raw, rawOwned, text, input, lines, iterDone, parserVars>>

\* One call of Interval::new, or of Interval::set_value, which calls it.
NewInterval ==
    /\ ~parsed.some
    /\ \E value \in IntervalValues :
          parsed' = Some([ty |-> "new", value |-> value, result |-> IntervalNew(value)])
    /\ UNCHANGED <<raw, rawOwned, text, input, lines, iterDone, parserVars>>

RuleNext == ParseRule \/ NewInterval

SpecRule == RuleInit /\ [][RuleNext]_vars

\* ------------------------------------- C21: each key at most once

\* The entries written after FREQ=DAILY, and the key of an entry.
RefRuleEntries(s) == Tail(RefPieces(s, ";"))

RefKey(entry) ==
    IF \E i \in 1..Len(entry) : entry[i] = "="
    THEN SubSeq(entry, 1, (CHOOSE i \in 1..Len(entry) :
                              entry[i] = "=" /\ \A j \in 1..(i - 1) : entry[j] # "=") - 1)
    ELSE entry

RefEndKeys == {<<"U", "N", "T", "I", "L">>, <<"C", "O", "U", "N", "T">>}

RefOnceKeys ==
    {<<"I", "N", "T", "E", "R", "V", "A", "L">>, <<"W", "K", "S", "T">>, <<"B", "Y", "S", "E", "C", "O", "N", "D">>, <<"B", "Y", "M", "I", "N", "U", "T", "E">>, <<"B", "Y", "H", "O", "U", "R">>, <<"B", "Y", "D", "A", "Y">>,
     <<"B", "Y", "M", "O", "N", "T", "H", "D", "A", "Y">>, <<"B", "Y", "Y", "E", "A", "R", "D", "A", "Y">>, <<"B", "Y", "W", "E", "E", "K", "N", "O">>, <<"B", "Y", "M", "O", "N", "T", "H">>, <<"B", "Y", "S", "E", "T", "P", "O", "S">>}

\* How many entries have a key of keys.
RefKeyCount(entries, keys) ==
    Cardinality({i \in 1..Len(entries) : RefKey(entries[i]) \in keys})

\* The entries break a rule of the rule: a second UNTIL or COUNT, a repeated
\* key, a key that is not known, or an entry without '='.
RefEntriesBad(entries) ==
    \/ RefKeyCount(entries, RefEndKeys) > 1
    \/ \E key \in RefOnceKeys : RefKeyCount(entries, {key}) > 1
    \/ \E i \in 1..Len(entries) :
          \/ RefKey(entries[i]) \notin RefEndKeys \cup RefOnceKeys
          \/ \A j \in 1..Len(entries[i]) : entries[i][j] # "="

\* C21: a rule with a second UNTIL or COUNT in any combination, with INTERVAL,
\* WKST or a BY key twice, with a key that is not a recurrence key or with an
\* entry without '=' is refused, COUNT and then UNTIL with the error that the
\* two cannot be set more than once; every other rule of the rules parsed,
\* INTERVAL=0 apart, is accepted, and a rule that is accepted has the end set exactly when UNTIL or COUNT is written and
\* INTERVAL, BYDAY and WKST set exactly when they are written.
C21_KeysAtMostOnce ==
    (parsed.some /\ parsed.val.ty = "parse") =>
        LET entries == RefRuleEntries(raw)
            result == parsed.val.result
        IN /\ RefEntriesBad(entries) => ~result.ok
           /\ (~RefEntriesBad(entries) /\ \A i \in 1..Len(entries) : entries[i] # <<"I", "N", "T", "E", "R", "V", "A", "L", "=", "0">>)
                  => result.ok
           /\ raw = <<"F", "R", "E", "Q", "=", "D", "A", "I", "L", "Y", ";", "C", "O", "U", "N", "T", "=", "2", ";", "U", "N", "T", "I", "L", "=", "2", "0", "2", "4", "0", "1", "0", "1">> =>
                  result = Err(Msg("cannot set UNTIL or COUNT more than once"))
           /\ result.ok =>
                  /\ (result.val.end # End_Forever) <=> RefKeyCount(entries, RefEndKeys) = 1
                  /\ result.val.interval.some <=> RefKeyCount(entries, {<<"I", "N", "T", "E", "R", "V", "A", "L">>}) = 1
                  /\ result.val.by_week_day.some <=> RefKeyCount(entries, {<<"B", "Y", "D", "A", "Y">>}) = 1
                  /\ result.val.week_start.some <=> RefKeyCount(entries, {<<"W", "K", "S", "T">>}) = 1

\* A rule with BYDAY twice was refused, and a rule with BYDAY and COUNT was
\* accepted.
C21_Witness ==
    /\ parsed.some
    /\ parsed.val.ty = "parse"
    /\ raw = <<"F", "R", "E", "Q", "=", "D", "A", "I", "L", "Y", ";", "B", "Y", "D", "A", "Y", "=", "M", "O", ",", "-", "1", "S", "U", ";", "B", "Y", "D", "A", "Y", "=", "M", "O", ",", "-", "1", "S", "U">>
    /\ parsed.val.result = Err([msg |-> "cannot set more than once", field |-> "by_week_day"])

\* ------------------------------------------- C22: a positive interval

\* C22: every interval that parsing a rule or Interval::new returns is at
\* least 1, so a rule with INTERVAL=0 is refused.
C22_IntervalPositive ==
    parsed.some =>
        IF parsed.val.ty = "parse"
        THEN (parsed.val.result.ok /\ parsed.val.result.val.interval.some)
                 => parsed.val.result.val.interval.val # <<>>
        ELSE parsed.val.result.ok => parsed.val.result.val # <<>>

\* ------------------------------------------- Text::try_from on its own

MaxTextLen == 4

TextChars == {"a", "\\", ",", ";", "n", "N", ":"}

\* The input of the test text of values.rs, each run of ordinary characters
\* shortened to its first letter.
TextTestInput ==
    <<"F", ":">> \o <<"\\", ",", "\\", ";", "\\", "n">> \o <<"s">>
        \o <<"\\", "N">> \o <<"t", ",", "s">> \o <<"\\", ",", ",">>

TextInit ==
    /\ raw \in SeqUpTo(TextChars, MaxTextLen) \cup {TextTestInput}
    /\ rawOwned \in BOOLEAN
    /\ parsed = None
    /\ text = <<>>
    /\ input = <<>>
    /\ lines = <<>>
    /\ iterDone = FALSE
    /\ ParserIdle

\* One call of Text::try_from, of a &str or of a String.
ParseText ==
    /\ ~parsed.some
    /\ parsed' = Some(TextTryFrom(raw, rawOwned))
    /\ UNCHANGED <<raw, rawOwned, text, input, lines, iterDone, parserVars>>

TextNext == ParseText

SpecText == TextInit /\ [][TextNext]_vars

\* --------------------------------------------------- C23: text values

\* The character at offset i is the second of an escape: a backslash that
\* is not itself escaped stands in front of it.
RECURSIVE RefEscaped(_, _)
RefEscaped(s, i) == i > 1 /\ s[i - 1] = "\\" /\ ~RefEscaped(s, i - 1)

\* A text as written: every backslash that is not escaped is followed by one
\* of backslash, comma, semicolon, N and n, and no semicolon is bare.
RefTextOk(s) ==
    \A i \in 1..Len(s) :
        /\ (s[i] = "\\" /\ ~RefEscaped(s, i))
               => (i < Len(s) /\ s[i + 1] \in {"\\", ",", ";", "N", "n"})
        /\ s[i] = ";" => RefEscaped(s, i)

\* The offsets of the commas that are not escaped.
RefCommas(s) == {i \in 1..Len(s) : s[i] = "," /\ ~RefEscaped(s, i)}

\* The characters that the text from offset i to offset j stands for.
RECURSIVE RefUnescape(_, _, _)
RefUnescape(s, i, j) ==
    IF i > j THEN <<>>
    ELSE IF s[i] = "\\"
         THEN <<IF s[i + 1] \in {"N", "n"} THEN LF ELSE s[i + 1]>> \o RefUnescape(s, i + 2, j)
         ELSE <<s[i]>> \o RefUnescape(s, i + 1, j)

\* The elements of the text from offset i on.
RECURSIVE RefElements(_, _)
RefElements(s, i) ==
    LET later == {c \in RefCommas(s) : c >= i}
        first == CHOOSE c \in later : \A d \in later : c <= d
    IN IF later = {} THEN <<RefUnescape(s, i, Len(s))>>
       ELSE <<RefUnescape(s, i, first - 1)>> \o RefElements(s, first + 1)

\* C23: Text::try_from accepts a text exactly when every backslash is
\* followed by a backslash, a comma, a semicolon, N or n and no semicolon is
\* bare; the result is the list of the texts between the commas that are not
\* escaped, one more than there are such commas, each with its escapes
\* replaced, and it is the same for a borrowed and for an owned input.
C23_TextElements ==
    parsed.some =>
        /\ parsed.val.ok <=> RefTextOk(raw)
        /\ parsed.val.ok =>
               /\ parsed.val.val = RefElements(raw, 1)
               /\ Len(parsed.val.val) = Cardinality(RefCommas(raw)) + 1
               /\ raw = TextTestInput =>
                      parsed.val.val = <<<<"F", ":", ",">> \o <<";", LF>> \o <<"s">> \o <<LF>> \o <<"t">>,
                                         <<"s", ",">>, <<>>>>

\* ------------------------------- C24: the date-times of an event are UTC

\* The lines taken so far that set one of the three date-times of an event
\* with a value that does not end in Z.
LocalTimeLines ==
    {n \in 1..Len(taken) :
        /\ WrittenName(taken[n]) \in {<<"C", "R", "E", "A", "T", "E", "D">>, <<"L", "A", "S", "T", "-", "M", "O", "D", "I", "F", "I", "E", "D">>, <<"D", "T", "S", "T", "A", "M", "P">>}
        /\ (taken[n].value = <<>> \/ taken[n].value[Len(taken[n].value)] # "Z")}

\* C24: in every event of a parse that succeeded, each of created,
\* last_modified and timestamp that is present is a UTC date-time; a CREATED,
\* LAST-MODIFIED or DTSTAMP line whose value has no trailing Z makes the parse
\* fail.
C24_EventTimesAreUtc ==
    pc = "done" =>
        /\ \A c \in 1..Len(calendars) : \A i \in 1..Len(calendars[c].events) :
               \A f \in {"created", "last_modified", "timestamp"} :
                   calendars[c].events[i][f].some
                       => calendars[c].events[i][f].val.time.utc
        /\ LocalTimeLines = {}

\* ----------------------------- C25: the integer sub-parsers of a time

\* The field of a time that an out-of-range error names, with the inclusive
\* range of the values that time_hour, time_minute and time_second(true)
\* accept.
EnforcedRange ==
    [hour |-> 0..23, minute |-> 0..59, seconds |-> 0..60]

\* The first of the three two-character fields of s that is not two decimal
\* digits, or 0; s has six characters at least.
BadDigitsField(s) ==
    LET bad == {k \in 1..3 : ~(is_ascii_digit(s[2 * k - 1]) /\ is_ascii_digit(s[2 * k]))}
    IN IF bad = {} THEN 0 ELSE Min(bad)

\* The first field of s, all of its fields before it being two digits, whose
\* number is outside of its range, or 0.
OutOfRangeField(s) ==
    LET names == <<"hour", "minute", "seconds">>
        out == {k \in 1..3 :
                   /\ \A j \in 1..k : is_ascii_digit(s[2 * j - 1]) /\ is_ascii_digit(s[2 * j])
                   /\ DecimalValue(SubSeq(s, 2 * k - 1, 2 * k)) \notin EnforcedRange[names[k]]}
    IN IF out = {} THEN 0 ELSE Min(out)

\* C25: the integer sub-parsers of a time enforce their digit count and their
\* inclusive range and do not panic.  A number outside of its range is
\* reported as an out-of-range error whose min and max are the inclusive
\* bounds enforced and whose value is the number; a field that is not two
\* digits is reported as an error of another kind.
C25_IntegerSubParsers ==
    (parsed.some /\ parsed.val.ty = "Time" /\ Len(raw) >= 6) =>
        LET r == parsed.val.result
            names == <<"hour", "minute", "seconds">>
            o == OutOfRangeField(raw)
            b == BadDigitsField(raw)
        IN /\ ~r.ok => ("msg" \in DOMAIN r.err /\ "panic" \notin DOMAIN r.err)
           /\ r.ok <=> (o = 0 /\ b = 0)
           /\ (o # 0 /\ (b = 0 \/ o < b)) =>
                  /\ ~r.ok
                  /\ r.err = out_of_range(names[o],
                                          0, CHOOSE m \in EnforcedRange[names[o]] :
                                                 \A n \in EnforcedRange[names[o]] : n <= m,
                                          DecimalValue(SubSeq(raw, 2 * o - 1, 2 * o)))
           /\ (b # 0 /\ (o = 0 \/ b < o)) =>
                  /\ ~r.ok
                  /\ r.err.msg # "out of range value"

\* ------------------------------------------ the parameter map on its own

\* The most operations on one map, the names they are given and the values.
MaxOps == 3

ParamNames == {Iana(<<"V", "A", "L", "U", "E">>), XName(None, <<"a">>)}

ParamValueTexts == {<<"v">>, <<"w">>}

\* A map without parameters; log is the list of the values put into it, each
\* with its name, and of the names taken out of it (history).
ParamsInit ==
    /\ raw = [params |-> EmptyParams, log |-> <<>>]
    /\ rawOwned = FALSE
    /\ parsed = None
    /\ text = <<>>
    /\ input = <<>>
    /\ lines = <<>>
    /\ iterDone = FALSE
    /\ ParserIdle

Inserted(name, values) ==
    [i \in 1..Len(values) |-> [op |-> "insert", name |-> name, value |-> values[i]]]

\* ParamMap::push
PushValue ==
    /\ Len(raw.log) < MaxOps
    /\ \E name \in ParamNames, value \in ParamValueTexts :
          /\ raw' = [params |-> push(raw.params, name, value),
                     log |-> raw.log \o Inserted(name, <<value>>)]
          /\ parsed' = Some([op |-> "push", key |-> name])
    /\ UNCHANGED <<rawOwned, text, input, lines, iterDone, parserVars>>

\* ParamMap::add_values
AddValues ==
    /\ Len(raw.log) < MaxOps
    /\ \E name \in ParamNames, values \in SeqUpTo(ParamValueTexts, 2) :
          /\ raw' = [params |-> add_values(raw.params, name, values),
                     log |-> raw.log \o Inserted(name, values)]
          /\ parsed' = Some([op |-> "add_values", key |-> name])
    /\ UNCHANGED <<rawOwned, text, input, lines, iterDone, parserVars>>

\* ParamMap::take
Take ==
    /\ Len(raw.log) < MaxOps
    /\ \E key \in ParamNames :
          /\ raw' = [params |-> take(raw.params, key).params,
                     log |-> Append(raw.log, [op |-> "take", name |-> key])]
          /\ parsed' = Some([op |-> "take", key |-> key,
                             value |-> take(raw.params, key).value])
    /\ UNCHANGED <<rawOwned, text, input, lines, iterDone, parserVars>>

\* ParamMap::take_ty for a type whose parameter is VALUE and holds one value:
\* the entry is taken before its values are looked at.
TakeTy ==
    /\ Len(raw.log) < MaxOps
    /\ raw' = [params |-> take(raw.params, Iana(<<"V", "A", "L", "U", "E">>)).params,
               log |-> Append(raw.log, [op |-> "take", name |-> Iana(<<"V", "A", "L", "U", "E">>)])]
    /\ parsed' = Some([op |-> "take_ty", key |-> Iana(<<"V", "A", "L", "U", "E">>),
                       result |-> take_ty(raw.params, Iana(<<"V", "A", "L", "U", "E">>), FALSE)])
    /\ UNCHANGED <<rawOwned, text, input, lines, iterDone, parserVars>>

ParamsNext == PushValue \/ AddValues \/ Take \/ TakeTy

SpecParams == ParamsInit /\ [][ParamsNext]_vars

\* ------------------------------------------ C26: taking from the map

\* The values put under name since it was last taken, in the order they were
\* put in, by the list of what was done.
RECURSIVE RefRecorded(_, _)
RefRecorded(log, name) ==
    IF log = <<>> THEN <<>>
    ELSE LET last == log[Len(log)]
             before == SubSeq(log, 1, Len(log) - 1)
         IN IF last.name # name THEN RefRecorded(before, name)
            ELSE IF last.op = "take" THEN <<>>
            ELSE Append(RefRecorded(before, name), last.value)

\* C26: after any insertions, take(name) returns the whole list of the values
\* recorded under the name, in the order of insertion, and removes the entry,
\* so that a second take of the name returns nothing; the entries of the other
\* names are unchanged; every entry has a value; take_ty of a parameter that
\* is absent returns None and no error.
C26_TakeSemantics ==
    /\ \A e \in raw.params : e.values # <<>>
    /\ \A name \in ParamNames :
           /\ HasParam(raw.params, name) <=> RefRecorded(raw.log, name) # <<>>
           /\ HasParam(raw.params, name)
                  => /\ ParamValues(raw.params, name) = RefRecorded(raw.log, name)
                     /\ Cardinality({e \in raw.params : e.name = name}) = 1
    /\ (parsed.some /\ parsed.val.op = "take") =>
           LET recorded == RefRecorded(SubSeq(raw.log, 1, Len(raw.log) - 1), parsed.val.key)
           IN /\ parsed.val.value = IF recorded = <<>> THEN None ELSE Some(recorded)
              /\ ~HasParam(raw.params, parsed.val.key)
    /\ (parsed.some /\ parsed.val.op = "take_ty") =>
           LET recorded == RefRecorded(SubSeq(raw.log, 1, Len(raw.log) - 1), parsed.val.key)
           IN recorded = <<>> =>
                  /\ parsed.val.result.ok
                  /\ parsed.val.result.val.value = None

\* A name that a value was put under was taken, and taken again: the second
\* take returned nothing.
C26_Witness ==
    /\ Len(raw.log) = 3
    /\ raw.log[1].op = "insert"
    /\ raw.log[2] = [op |-> "take", name |-> raw.log[1].name]
    /\ raw.log[3] = raw.log[2]
    /\ parsed = Some([op |-> "take", key |-> raw.log[1].name, value |-> None])

\* ------------------------------------------------ the Lexer on its own

\* The most lines of a text the Lexer is run on, and the lines: plain, with
\* a parameter, and folded.
MaxLexLines == 3

LexerLines == {<<"A", ":", "1">>, <<"B", ";", "X", "=", "y", ":", "2">>, <<"C", ":", "3">> \o <<CR, LF, SP>> \o <<"4">>}

\* The texts the Lexer is run on: the lines with their terminators, and the
\* same without the last terminator.
LexerTexts ==
    {Join(d) : d \in SeqUpTo(LexerLines, MaxLexLines)}
        \cup {SubSeq(Join(d), 1, Len(Join(d)) - 2) :
                 d \in SeqUpTo(LexerLines, MaxLexLines) \ {<<>>}}

\* Lexer::new
LexerInit ==
    /\ text \in LexerTexts
    /\ input = text
    /\ lines = <<>>
    /\ iterDone = FALSE
    /\ raw = <<>>
    /\ rawOwned = FALSE
    /\ parsed = None
    /\ ParserIdle

\* The Lexer after a call: s, with what the call returned.
Returned(s, last) ==
    /\ input' = s.input
    /\ cache' = s.cache
    /\ lines' = s.lines
    /\ iterDone' = s.iterDone
    /\ taken' = s.taken
    /\ parsed' = Some(last)
    /\ UNCHANGED <<text, stripped, raw, rawOwned, pc, calendars, builder, event,
                   depth, ret, error>>

\* Lexer::next
Peek ==
    Returned(Lexer_next(State).s,
             IF Lexer_next(State).ok
             THEN [op |-> "next", line |-> Lexer_next(State).line]
             ELSE [op |-> "next", err |-> Lexer_next(State).err])

\* Lexer::take_next
Consume ==
    Returned(take_next(State).s,
             IF take_next(State).ok
             THEN [op |-> "take_next", line |-> take_next(State).line]
             ELSE [op |-> "take_next", err |-> take_next(State).err])

\* Lexer::step
Step == Returned(Lexer_step(State), [op |-> "step"])

LexerNext == Peek \/ Consume \/ Step

SpecLexer == LexerInit /\ [][LexerNext]_vars

\* ------------------------------------------ C27: the lookahead buffer

\* The texts of the lines handed out by take_next or discarded by step, and
\* of the lines in the cache.
Handed == [i \in 1..Len(taken) |-> taken[i].src]

Cached == [i \in 1..Len(cache) |-> cache[i].src]

\* What was read from the unfolder is handed out or cached, in its order; a
\* call that returns no line has handed out every line of the text.
C27_Buffer ==
    /\ Len(cache) <= 1
    /\ Handed \o Cached = Yielded
    /\ IsPrefix(Handed \o Cached, RefUnfold(text))
    /\ (parsed.some /\ parsed.val.op \in {"next", "take_next"}) =>
           /\ "line" \in DOMAIN parsed.val
           /\ ~parsed.val.line.some => Handed = RefUnfold(text)
           /\ (parsed.val.line.some /\ parsed.val.op = "take_next")
                  => parsed.val.line.val = taken[Len(taken)]

\* The call after a next: another next returns the same and hands out
\* nothing, a take_next returns the line that the next returned.
C27_PeekKeeps ==
    (parsed.some /\ parsed.val.op = "next") =>
        /\ parsed'.val.op = "next" => (parsed' = parsed /\ taken' = taken)
        /\ parsed'.val.op = "take_next" =>
               /\ parsed'.val.line = parsed.val.line
               /\ parsed.val.line.some => taken' = Append(taken, parsed.val.line.val)

\* C27: for any interleaving of next, take_next and step on a Lexer over
\* well-formed lines, next consumes nothing (a take_next after it returns the
\* same line, and so does another next), the lines that take_next returned
\* and step discarded are the unfolder's lines in the order of the document,
\* each once, and the cache holds one line at most.
C27_Lookahead == []C27_Buffer /\ [][C27_PeekKeeps]_vars

\* A text of three lines, one of them folded, was read to its end: a line
\* was looked at and then taken, and a line was skipped without being parsed.
C27_Witness ==
    /\ parsed = Some([op |-> "take_next", line |-> None])
    /\ Len(taken) = 3
    /\ \E i \in 1..3 : "name" \notin DOMAIN taken[i]
    /\ \E i \in 1..3 : "name" \in DOMAIN taken[i] /\ taken[i].owned

\* ------------------------------------------ C28: skipping a block

\* The depth after a line written with the name w is taken at the depth d.
RefDepth(d, w) ==
    IF w = <<"B", "E", "G", "I", "N">> THEN d + 1
    ELSE IF w = <<"E", "N", "D">> THEN d - 1
    ELSE d

\* One turn of skip_current, and the call of it.
C28_Turn ==
    /\ (pc # "skip" /\ pc' = "skip") => depth' = 1
    /\ (pc = "skip" /\ take_next(State).ok) =>
           LET t == take_next(State)
           IN IF ~t.line.some
              THEN pc' = "failed" /\ error' = Some(Msg("unexpected EOF"))
              ELSE /\ taken' = Append(taken, t.line.val)
                   /\ cache' = t.s.cache
                   /\ input' = t.s.input
                   /\ IF RefDepth(depth, WrittenName(t.line.val)) = 0
                      THEN pc' = ret /\ error' = None
                      ELSE pc' = "skip"
                           /\ depth' = RefDepth(depth, WrittenName(t.line.val))

\* C28: skip_current, called after the BEGIN line of a nested block was
\* taken, takes lines with a depth that starts at 1, goes up by one on every
\* BEGIN line and down by one on every END line, whatever their values, and
\* returns after the END line that brings it to 0, the line after it being the
\* next to be read; when the input ends before that, it fails with the error
\* of an unexpected end of the document.
C28_SkipCurrent == [][C28_Turn]_vars

\* ------------------------------------------ C29: the VERSION of a calendar

\* A VERSION line was taken since the last BEGIN:VCALENDAR line.
VersionSeen ==
    \E n \in 1..Len(taken) :
        /\ WrittenName(taken[n]) = <<"V", "E", "R", "S", "I", "O", "N">>
        /\ \A k \in (n + 1)..Len(taken) :
               ~(WrittenName(taken[k]) = <<"B", "E", "G", "I", "N">> /\ taken[k].value = <<"V", "C", "A", "L", "E", "N", "D", "A", "R">>)

\* The turn of Calendar::parse that takes a VERSION line.
C29_Turn ==
    LET t == take_next(State)
    IN (/\ pc = "calendar"
        /\ t.ok
        /\ t.line.some
        /\ WrittenName(t.line.val) = <<"V", "E", "R", "S", "I", "O", "N">>)
       => /\ (t.line.val.value # <<"2", ".", "0">> \/ HasIanaParam(t.line.val)) => pc' = "failed"
          /\ VersionSeen =>
                 /\ pc' = "failed"
                 /\ (t.line.val.value = <<"2", ".", "0">> /\ ~HasIanaParam(t.line.val))
                        => error' = Some(AtLeast2("1", "VERSION"))

\* C29: a calendar block with two VERSION lines or more is refused with the
\* error 'expected 1 VERSION, found at least 2'; every VERSION line has the
\* value 2.0 and no registered parameter, or the parse fails.
C29_VersionOnce == [][C29_Turn]_vars

\* ------------------------------------------------- values.rs: UtcOffset

\* impl FromStr for UtcOffset
UtcOffsetFromStr(s) ==
    IF s = <<>> \/ s[1] \notin {"+", "-"} THEN Err(Msg("expected + or -"))
    ELSE Bind(s[1] = "-", LAMBDA negative :
         Bind(time_hour(Tail(s)), LAMBDA hour :
         Bind(time_hour(hour.val.rest), LAMBDA minute :
         Bind(IF minute.val.rest # <<>>
              THEN Ok([rest |-> <<>>, val |-> 0])
              ELSE time_second(FALSE, minute.val.rest), LAMBDA second :
            IF ~hour.ok THEN hour
            ELSE IF ~minute.ok THEN minute
            ELSE IF ~second.ok THEN second
            ELSE IF second.val.rest # <<>> THEN Err(Msg("trailing characters"))
            ELSE Ok([negative |-> negative,
                     hour |-> hour.val.val,
                     minute |-> minute.val.val,
                     second |-> second.val.val])))))

\* The offsets parsed: a sign or none, an hour, a minute, and what follows.
OffsetInputs ==
    {sign \o h \o m \o tail :
        sign \in {<<"+">>, <<"-">>, <<>>, <<"x">>},
        h \in {<<"0", "0">>, <<"0", "1">>, <<"0", "5">>, <<"2", "3">>, <<"2", "4">>},
        m \in {<<"0", "0">>, <<"2", "3">>, <<"3", "0">>, <<"5", "9">>, <<"6", "0">>},
        tail \in {<<>>, <<"0", "0">>, <<"3", "0">>, <<"5", "9">>, <<"6", "0">>, <<"x">>, <<"3">>, <<"3", "0", "0">>}}

OffsetInit ==
    /\ raw \in OffsetInputs
    /\ rawOwned = FALSE
    /\ parsed = None
    /\ text = <<>>
    /\ input = <<>>
    /\ lines = <<>>
    /\ iterDone = FALSE
    /\ ParserIdle

\* One call of UtcOffset::from_str.
ParseOffset ==
    /\ ~parsed.some
    /\ parsed' = Some(UtcOffsetFromStr(raw))
    /\ UNCHANGED <<raw, rawOwned, text, input, lines, iterDone, parserVars>>

OffsetNext == ParseOffset

SpecOffset == OffsetInit /\ [][OffsetNext]_vars

\* ------------------------------------------ C30: UTC offsets

\* An offset as written: a sign, two digits of an hour up to 23, two of a
\* minute up to 59 and, or not, two of a second up to 59.
RefOffsetOk(s) ==
    /\ Len(s) \in {5, 7}
    /\ s[1] \in {"+", "-"}
    /\ \A i \in 2..Len(s) : is_ascii_digit(s[i])
    /\ DecimalValue(SubSeq(s, 2, 3)) <= 23
    /\ DecimalValue(SubSeq(s, 4, 5)) <= 59
    /\ Len(s) = 7 => DecimalValue(SubSeq(s, 6, 7)) <= 59

RefOffset(s) ==
    [negative |-> s[1] = "-",
     hour |-> DecimalValue(SubSeq(s, 2, 3)),
     minute |-> DecimalValue(SubSeq(s, 4, 5)),
     second |-> IF Len(s) = 7 THEN DecimalValue(SubSeq(s, 6, 7)) ELSE 0]

\* C30: UtcOffset parsing accepts a sign, an hour of two digits from 0 to 23,
\* a minute of two digits from 0 to 59 and, or not, a second of two digits
\* from 0 to 59, and nothing else, nor anything after them; +0530 and -0100
\* have the second 0, -050030 the second 30, and the offset parsed has the
\* sign, the hour, the minute and the second written.
C30_OffsetGrammar ==
    parsed.some =>
        /\ parsed.val.ok <=> RefOffsetOk(raw)
        /\ parsed.val.ok => parsed.val.val = RefOffset(raw)
        /\ raw = <<"+", "0", "5", "3", "0">> => parsed.val = Ok([negative |-> FALSE, hour |-> 5, minute |-> 30, second |-> 0])
        /\ raw = <<"-", "0", "1", "0", "0">> => parsed.val = Ok([negative |-> TRUE, hour |-> 1, minute |-> 0, second |-> 0])
        /\ raw = <<"-", "0", "5", "0", "0", "3", "0">> => parsed.val = Ok([negative |-> TRUE, hour |-> 5, minute |-> 0, second |-> 30])
====
